---- MODULE Spec2Model ----
(***************************************************************************)
(* Model of kienfio/translate_manual: the replicated state cache           *)
(* (utils/state_sync.py), the room messaging layer (utils/text_chat.py)    *)
(* and the WebSocket fan-out gateway (main.py).                            *)
(*                                                                         *)
(* Scheduling is asyncio's: one task runs until it reaches an await that   *)
(* suspends.  Each action below is one such uninterruptible segment.  The  *)
(* variable `running` names the task that is in the middle of a            *)
(* synchronous segment (a coroutine returning into its caller); while it   *)
(* is set, no other task can take a step.                                  *)
(***************************************************************************)
EXTENDS Naturals, Sequences, FiniteSets, TLC

\* ---------------------------------------------------------------- bounds
MaxOps == 3
MaxSets == 2
MaxFailures == 1
MaxCalls == 2
MaxClock == 1
MaxFrames == 1
\* callbacks registered at a time for one namespace; listener tasks started by one
\* process; messages in a room log drawn as input; largest limit of a history request
MaxSubs == 2
MaxTasks == 2
MaxLen == 3
MaxLimit == 3

\* ------------------------------------------------------------ the universe
Procs == {"P1", "P2"}
NsDefault == "default"
NsChat == "chat_messages"
NsCaptions == "captions"
Keys == {<<"k">>}
Values == {[v |-> "a"], [v |-> "b"]}
Callbacks == {"cbA", "cbB"}
Listeners == {"lA", "lB"}
ApiTasks == {"t1", "t2", "t3"}
Conns == {"c1", "c2", "c3", "c4", "c5"}
Tasks == ApiTasks \cup Conns
NoTask == "none"
None == [none |-> TRUE]

\* the process a task runs in
ProcOf(t) == IF t \in {"t2", "c4"} THEN "P2" ELSE "P1"
\* the room_name and user_id a connection or a request carries
RoomOf(t) == IF t = "c5" THEN "s" ELSE "r"
UserOf(t) == t

VARIABLES
    REDIS_ENABLED,   \* settings.REDIS_ENABLED
    reachable,       \* the backing store and its propagation channel can be reached
    last_ret,        \* per process: its last connect, subscribe or unsubscribe call and
                     \* what the call returned
    redis,           \* the backing store: full_key -> JSON text
    pubsub,          \* per process: the channels of self.pubsub and its unread messages
    failures,        \* number of faults injected: store failures, clients gone, cancellations
    published,       \* number of events published so far
    is_connected,    \* StateManager.is_connected, per process
    subscribers,     \* StateManager.subscribers, per process: namespace -> list of callbacks
    handlers,        \* number of running _message_handler tasks, per process
    local_state,     \* StateManager.local_state, per process: namespace -> key -> value
    own_write,       \* per task: its last set_state and whether the entry was written since
    cb_log,          \* per process and client callback: the (key, value) pairs it was invoked with
    applied,         \* per process: number of events its listener took from the channel
    pc,              \* position of every task
    cont,            \* the callers a task returns into
    ret,             \* the value the last set_state / get_state of a task returned
    running,         \* the task inside a synchronous segment, or NoTask
    call,            \* arguments of the set_state / get_state call a task is inside
    ops,             \* number of API calls begun (bounded)
    boot,            \* per process: position in the application startup
    now,             \* the wall clock, in seconds
    room_messages,   \* TextChatManager.room_messages, per process: room -> list of messages
    captions,        \* TextChatManager.captions, per process: room -> user_id -> caption
    message_counter, \* TextChatManager.message_counter, per process
    message_of,      \* per task: the local `message` of send_message
    caption_of,      \* per task: the local `caption` of update_caption
    active_websockets, \* main.active_websockets, per process: room -> list of connections
    sock,            \* per connection: the client's end ("new", "open", "closed")
    inbox,           \* per connection: the frames its client received
    target,          \* per connection: the `ws` its broadcast loop is sending to
    it,              \* per connection: the index of its broadcast loop's list iterator
    stay,            \* per connection: the peers that stayed registered and open during its broadcast
    sending,         \* per connection: the frame its handler passed to the send_json it awaits
    frames,          \* number of inbound frames received (bounded by MaxFrames)
    message_listeners, \* TextChatManager.message_listeners, per process: room -> set of listeners
    caption_listeners, \* TextChatManager.caption_listeners, per process: room -> set of listeners
    heard,           \* per process and listener: the values it was invoked with, in order
    dispatching,     \* per process: the deliveries of _message_handler tasks suspended in a listener
    RECORDING_ENABLED, \* settings.RECORDING_ENABLED
    active_recordings, \* RecordingManager.active_recordings, per process: recording_id -> info
    active_calls,    \* SIPManager.active_calls, per process: call_id -> info
    replies          \* per task: what its last recording or call request returned

cfgVars == <<REDIS_ENABLED, reachable, last_ret>>
storeVars == <<redis, pubsub, failures, published>>
mgrVars == <<is_connected, subscribers, handlers>>
mirrorVars == <<local_state, own_write>>
ctlVars == <<pc, cont, ret, running>>
chatVars == <<room_messages, captions, message_counter, message_of, caption_of>>
gwVars == <<active_websockets, sock, inbox, target, it, stay, sending, frames>>
lsnVars == <<message_listeners, caption_listeners, heard, dispatching>>
recVars == <<RECORDING_ENABLED, active_recordings, active_calls, replies>>

vars == <<cfgVars, storeVars, mgrVars, mirrorVars, cb_log, applied, ctlVars, call,
          ops, boot, now, chatVars, gwVars, lsnVars, recVars>>

\* ------------------------------------------------------------ dictionaries
EmptyDict == [x \in {} |-> TRUE]
Has(d, k) == k \in DOMAIN d
Put(d, k, v) == [x \in (DOMAIN d) \cup {k} |-> IF x = k THEN v ELSE d[x]]
Del(d, k) == [x \in (DOMAIN d) \ {k} |-> d[x]]
Lookup(d, k) == IF Has(d, k) THEN d[k] ELSE EmptyDict
ListOf(d, k) == IF Has(d, k) THEN d[k] ELSE <<>>

\* json.dumps / json.loads: the text is kept apart from the value it encodes
JsonDumps(v) == <<"json", v>>
JsonLoads(s) == s[2]

\* f"{namespace}:{key}"
FullKey(ns, key) == <<ns, key>>
\* f"state_updates:{namespace}"
Channel(ns) == <<"state_updates", ns>>

Contains(s, x) == \E i \in 1..Len(s) : s[i] = x

\* list.remove(x): the first occurrence goes
RECURSIVE RemoveFirst(_, _)
RemoveFirst(s, x) ==
    IF s = <<>> THEN <<>>
    ELSE IF Head(s) = x THEN Tail(s)
    ELSE <<Head(s)>> \o RemoveFirst(Tail(s), x)

\* what a call returned: set_state a bool, get_state a value (None: absent)
SetResult(b) == [bool |-> b, value |-> None, store_access |-> FALSE]
GetResult(v, acc) == [bool |-> FALSE, value |-> v, store_access |-> acc]

Returned(op, b) == [op |-> op, value |-> b]
NoCall == [op |-> "none", ns |-> "", key |-> <<>>, value |-> None]
NoWrite == [open |-> FALSE, clean |-> FALSE, ns |-> "", key |-> <<>>, value |-> None]

\* ------------------------------------------------------------------- Init
InitCacheVars ==
    /\ redis = EmptyDict
    /\ pubsub = [p \in Procs |-> [channels |-> {}, buffer |-> <<>>]]
    /\ is_connected = [p \in Procs |-> FALSE]
    /\ subscribers = [p \in Procs |-> EmptyDict]
    /\ local_state = [p \in Procs |-> EmptyDict]
    /\ handlers = [p \in Procs |-> 0]
    /\ cb_log = [p \in Procs |-> [c \in Callbacks |-> <<>>]]
    /\ failures = 0
    /\ published = 0
    /\ applied = [p \in Procs |-> 0]
    /\ last_ret = [p \in Procs |-> Returned("none", FALSE)]

InitTaskVars ==
    /\ pc = [t \in Tasks |-> "idle"]
    /\ call = [t \in Tasks |-> NoCall]
    /\ cont = [t \in Tasks |-> <<>>]
    /\ ret = [t \in Tasks |-> GetResult(None, FALSE)]
    /\ running = NoTask
    /\ ops = 0
    /\ own_write = [t \in Tasks |-> NoWrite]
    /\ boot = [p \in Procs |-> "off"]

\* ------------------------------------------------------- StateManager.connect
\* With replication enabled, from_url() builds a fresh client and a fresh PubSub
\* object: the new object has no channel and no unread message.  Neither call does
\* any I/O, so the store being unreachable is not noticed here.
Connect(p) ==
    /\ running = NoTask
    /\ IF REDIS_ENABLED
       THEN /\ is_connected' = [is_connected EXCEPT ![p] = TRUE]
            /\ pubsub' = [pubsub EXCEPT ![p] = [channels |-> {}, buffer |-> <<>>]]
            /\ last_ret' = [last_ret EXCEPT ![p] = Returned("connect", TRUE)]
       ELSE /\ UNCHANGED <<is_connected, pubsub>>
            /\ last_ret' = [last_ret EXCEPT ![p] = Returned("connect", FALSE)]
    /\ UNCHANGED <<REDIS_ENABLED, reachable, lsnVars, recVars, redis, failures, published, subscribers, handlers,
                   mirrorVars, cb_log, applied, ctlVars, call, ops, now, chatVars, gwVars>>

\* self.subscribers.get(namespace, [])
SubscriberList(p, ns) == ListOf(subscribers[p], ns)

\* ---------------------------------------------------- StateManager.disconnect
\* lines 45-50: the client is closed and the manager marked as not connected.  A
\* manager without a client (line 47) was never connected, and stays so
Disconnect(p) ==
    /\ running = NoTask
    /\ is_connected' = [is_connected EXCEPT ![p] = FALSE]
    /\ last_ret' = [last_ret EXCEPT ![p] = Returned("disconnect", FALSE)]
    /\ UNCHANGED <<REDIS_ENABLED, reachable, lsnVars, recVars, storeVars, subscribers, handlers,
                   mirrorVars, cb_log, applied, ctlVars, call, ops, now, chatVars, gwVars>>

\* lines 265 and 281: the `for callback in self.subscribers[namespace]` loop of a
\* listener task of p that is suspended inside a callback iterates the list object
\* itself, so it sees callback cb appended to the list of namespace ns (`add`) or
\* removed from it; a loop whose list left the dict (`detach`, line 230) goes on over
\* that list, which later subscriptions no longer reach
Iterated(p, ns, cb, add, detach) ==
    [dispatching EXCEPT ![p] =
        [i \in 1..Len(dispatching[p]) |->
            LET d == dispatching[p][i]
            IN IF d.attached /\ d.ns = ns
               THEN [d EXCEPT !.list = IF add THEN Append(@, cb) ELSE RemoveFirst(@, cb),
                              !.attached = ~detach]
               ELSE d]]

\* ----------------------------------------------------- StateManager.subscribe
\* a manager that is not connected refuses (returns False) and changes nothing; when
\* the channel subscription of a first subscriber fails, the callback stays in the
\* list, no listener task is started and the call returns False
Subscribe(p, ns, cb) ==
    /\ running = NoTask
    /\ IF is_connected[p]
       THEN LET new == Append(SubscriberList(p, ns), cb)
            IN /\ subscribers' = [subscribers EXCEPT ![p] = Put(@, ns, new)]
               /\ IF Len(new) = 1 /\ reachable
                  THEN /\ pubsub' = [pubsub EXCEPT ![p].channels = @ \cup {ns}]
                       /\ handlers' = [handlers EXCEPT ![p] = @ + 1]
                  ELSE UNCHANGED <<pubsub, handlers>>
               /\ dispatching' = Iterated(p, ns, cb, TRUE, FALSE)
               /\ last_ret' = [last_ret EXCEPT
                      ![p] = Returned("subscribe", Len(new) > 1 \/ reachable)]
       ELSE /\ UNCHANGED <<subscribers, pubsub, handlers, dispatching>>
            /\ last_ret' = [last_ret EXCEPT ![p] = Returned("subscribe", FALSE)]
    /\ UNCHANGED <<REDIS_ENABLED, reachable, message_listeners, caption_listeners, heard, recVars, redis, failures, published, is_connected, mirrorVars,
                   cb_log, applied, ctlVars, call, ops, now, chatVars, gwVars>>

\* --------------------------------------------------- StateManager.unsubscribe
\* an unknown namespace returns False; the first occurrence of the callback goes; when
\* the list is left empty the channel is released and the namespace dropped, and if the
\* release fails the empty list stays and the call returns False.  The listener tasks
\* are not told: nothing here cancels them or makes their loop condition false.
Unsubscribe(p, ns, cb) ==
    /\ running = NoTask
    /\ IF Has(subscribers[p], ns)
       THEN LET rest == RemoveFirst(subscribers[p][ns], cb)
            IN /\ subscribers' = [subscribers EXCEPT
                      ![p] = IF rest = <<>> /\ reachable THEN Del(@, ns) ELSE Put(@, ns, rest)]
               /\ pubsub' = [pubsub EXCEPT
                      ![p].channels = IF rest = <<>> /\ reachable THEN @ \ {ns} ELSE @]
               /\ dispatching' = Iterated(p, ns, cb, FALSE, rest = <<>> /\ reachable)
               /\ last_ret' = [last_ret EXCEPT
                      ![p] = Returned("unsubscribe", rest # <<>> \/ reachable)]
       ELSE /\ UNCHANGED <<subscribers, pubsub, dispatching>>
            /\ last_ret' = [last_ret EXCEPT ![p] = Returned("unsubscribe", FALSE)]
    /\ UNCHANGED <<REDIS_ENABLED, reachable, message_listeners, caption_listeners, heard, recVars, redis, failures, published, is_connected, handlers,
                   mirrorVars, cb_log, applied, ctlVars, call, ops, now, chatVars, gwVars>>

\* ----------------------------------------------------- returning from a call
\* A coroutine that ends returns into its caller without yielding to the event
\* loop: the task keeps `running` until it reaches its next await.  `stack` lists
\* the callers' resumption points, innermost first.
Resume(t, stack) ==
    IF stack = <<>>
    THEN /\ pc' = [pc EXCEPT ![t] = "returned"]
         /\ cont' = [cont EXCEPT ![t] = <<>>]
         /\ running' = NoTask
    ELSE /\ pc' = [pc EXCEPT ![t] = Head(stack)]
         /\ cont' = [cont EXCEPT ![t] = Tail(stack)]
         /\ running' = t

ReturnVia(t, r, stack) ==
    /\ ret' = [ret EXCEPT ![t] = r]
    /\ Resume(t, stack)

ReturnTo(t, r) == ReturnVia(t, r, cont[t])

\* the task reaches an await that suspends it at position `label`
Suspend(t, label, stack) ==
    /\ pc' = [pc EXCEPT ![t] = label]
    /\ cont' = [cont EXCEPT ![t] = stack]
    /\ running' = NoTask

\* a call to the store fails: always while the store is unreachable, and as an injected
\* transient fault while the budget lasts
Fails == ~reachable \/ failures < MaxFailures
FailuresAfter == IF reachable THEN failures + 1 ELSE failures

\* the mirror entry (ns, key) of process p is written by task w (NoTask: by the listener)
Disturb(p, ns, key, w, value) ==
    [x \in Tasks |->
        IF x = w THEN [open |-> TRUE, clean |-> TRUE, ns |-> ns, key |-> key, value |-> value]
        ELSE IF /\ own_write[x].open
                /\ ProcOf(x) = p
                /\ own_write[x].ns = ns
                /\ own_write[x].key = key
             THEN [own_write[x] EXCEPT !.clean = FALSE]
             ELSE own_write[x]]

\* ----------------------------------------------------- StateManager.set_state
\* lines 64-73: the mirror write, up to the first await (or the return when the
\* manager is not connected); `after` lists the callers to return into
SetStateLocal(t, ns, key, value, after) ==
    LET p == ProcOf(t) IN
    /\ local_state' = [local_state EXCEPT ![p] = Put(@, ns, Put(Lookup(@, ns), key, value))]
    /\ own_write' = Disturb(p, ns, key, t, value)
    /\ call' = [call EXCEPT ![t] = [op |-> "set", ns |-> ns, key |-> key, value |-> value]]
    /\ IF is_connected[p]
       THEN /\ Suspend(t, "set_store", after)
            /\ UNCHANGED ret
       ELSE ReturnVia(t, SetResult(TRUE), after)

\* mutant: no `except` around the store calls of set_state, the error reaches the caller
SetStateStore_NoExcept(t) ==
    /\ running = NoTask
    /\ pc[t] = "set_store"
    /\ \/ /\ reachable
          /\ redis' = Put(redis, FullKey(call[t].ns, call[t].key), JsonDumps(call[t].value))
          /\ pc' = [pc EXCEPT ![t] = "set_publish"]
          /\ UNCHANGED <<failures, ret, cont, running>>
       \/ /\ Fails
          /\ failures' = FailuresAfter
          /\ pc' = [pc EXCEPT ![t] = "raised"]
          /\ cont' = [cont EXCEPT ![t] = <<>>]
          /\ UNCHANGED <<redis, ret, running>>
    /\ UNCHANGED <<cfgVars, lsnVars, recVars, pubsub, published, mgrVars, mirrorVars, cb_log, applied,
                   call, ops, boot, now, chatVars, gwVars>>

\* lines 75-76: await self.redis.set(full_key, json_value)
SetStateStore(t) ==
    /\ running = NoTask
    /\ pc[t] = "set_store"
    /\ \/ /\ reachable
          /\ redis' = Put(redis, FullKey(call[t].ns, call[t].key), JsonDumps(call[t].value))
          /\ pc' = [pc EXCEPT ![t] = "set_publish"]
          /\ UNCHANGED <<failures, ret, cont, running>>
       \/ /\ Fails
          /\ failures' = FailuresAfter
          /\ ReturnTo(t, SetResult(FALSE))
          /\ UNCHANGED redis
    /\ UNCHANGED <<cfgVars, lsnVars, recVars, pubsub, published, mgrVars, mirrorVars, cb_log, applied,
                   call, ops, boot, now, chatVars, gwVars>>

UpdateMessage(ns, key, value) ==
    [channel |-> Channel(ns),
     data |-> JsonDumps([type |-> "state_update", namespace |-> ns, key |-> key,
                         value |-> value])]

\* the server hands a published message to every PubSub object subscribed to the channel
Deliver(ns, m) ==
    [q \in Procs |->
        IF ns \in pubsub[q].channels
        THEN [pubsub[q] EXCEPT !.buffer = Append(@, m)]
        ELSE pubsub[q]]

\* lines 79-90: await self.redis.publish(...), then return True
SetStatePublish(t) ==
    /\ running = NoTask
    /\ pc[t] = "set_publish"
    /\ \/ /\ reachable
          /\ pubsub' = Deliver(call[t].ns, UpdateMessage(call[t].ns, call[t].key, call[t].value))
          /\ published' = published + 1
          /\ ReturnTo(t, SetResult(TRUE))
          /\ UNCHANGED failures
       \/ /\ Fails
          /\ failures' = FailuresAfter
          /\ ReturnTo(t, SetResult(FALSE))
          /\ UNCHANGED <<pubsub, published>>
    /\ UNCHANGED <<cfgVars, lsnVars, recVars, redis, mgrVars, mirrorVars, cb_log, applied, call, ops,
                   boot, now, chatVars, gwVars>>

\* ----------------------------------------------------- StateManager.get_state
\* mutant: the mirror is not consulted when the manager is connected
GetStateLocal_SkipMirror(t, ns, key) ==
    LET p == ProcOf(t)
        d == Lookup(local_state[p], ns)
    IN
    /\ call' = [call EXCEPT ![t] = [op |-> "get", ns |-> ns, key |-> key, value |-> None]]
    /\ IF is_connected[p]
       THEN /\ Suspend(t, "get_store", <<>>)
            /\ UNCHANGED ret
       ELSE ReturnVia(t, GetResult(IF Has(d, key) THEN d[key] ELSE None, FALSE), <<>>)

\* lines 105-113: a mirror hit returns at once; a miss goes to the store when connected
GetStateLocal(t, ns, key) ==
    LET p == ProcOf(t)
        d == Lookup(local_state[p], ns)
    IN
    /\ call' = [call EXCEPT ![t] = [op |-> "get", ns |-> ns, key |-> key, value |-> None]]
    /\ IF Has(d, key)
       THEN ReturnVia(t, GetResult(d[key], FALSE), <<>>)
       ELSE IF is_connected[p]
            THEN /\ Suspend(t, "get_store", <<>>)
                 /\ UNCHANGED ret
            ELSE ReturnVia(t, GetResult(None, FALSE), <<>>)

\* lines 113-128: await self.redis.get(full_key), fill the mirror, return
\* mutant: the fetched value is returned without being written to the mirror
GetStateStore_NoFill(t) ==
    LET p == ProcOf(t)
        fk == FullKey(call[t].ns, call[t].key)
    IN
    /\ running = NoTask
    /\ pc[t] = "get_store"
    /\ \/ /\ reachable
          /\ Has(redis, fk)
          /\ ReturnTo(t, GetResult(JsonLoads(redis[fk]), TRUE))
          /\ UNCHANGED <<local_state, own_write, failures>>
       \/ /\ reachable
          /\ ~Has(redis, fk)
          /\ ReturnTo(t, GetResult(None, TRUE))
          /\ UNCHANGED <<local_state, own_write, failures>>
       \/ /\ Fails
          /\ failures' = FailuresAfter
          /\ ReturnTo(t, GetResult(None, TRUE))
          /\ UNCHANGED <<local_state, own_write>>
    /\ UNCHANGED <<cfgVars, lsnVars, recVars, redis, pubsub, published, mgrVars, cb_log, applied, call,
                   ops, boot, now, chatVars, gwVars>>

GetStateStore(t) ==
    LET p == ProcOf(t)
        fk == FullKey(call[t].ns, call[t].key)
    IN
    /\ running = NoTask
    /\ pc[t] = "get_store"
    /\ \/ /\ reachable
          /\ Has(redis, fk)
          /\ local_state' = [local_state EXCEPT
                 ![p] = Put(@, call[t].ns, Put(Lookup(@, call[t].ns), call[t].key,
                                               JsonLoads(redis[fk])))]
          /\ own_write' = Disturb(p, call[t].ns, call[t].key, NoTask, None)
          /\ ReturnTo(t, GetResult(JsonLoads(redis[fk]), TRUE))
          /\ UNCHANGED failures
       \/ /\ reachable
          /\ ~Has(redis, fk)
          /\ ReturnTo(t, GetResult(None, TRUE))
          /\ UNCHANGED <<local_state, own_write, failures>>
       \/ /\ Fails
          /\ failures' = FailuresAfter
          /\ ReturnTo(t, GetResult(None, TRUE))
          /\ UNCHANGED <<local_state, own_write>>
    /\ UNCHANGED <<cfgVars, lsnVars, recVars, redis, pubsub, published, mgrVars, cb_log, applied, call,
                   ops, boot, now, chatVars, gwVars>>

\* -------------------------------------------------- StateManager.delete_state
\* if namespace in self.local_state and key in self.local_state[namespace]: del ...
Drop(ls, ns, key) ==
    IF Has(ls, ns) /\ Has(ls[ns], key) THEN Put(ls, ns, Del(ls[ns], key)) ELSE ls

\* lines 141-145: the mirror entry goes, up to the first await (or the return when the
\* manager is not connected)
DeleteStateLocal(t, ns, key, after) ==
    LET p == ProcOf(t) IN
    /\ local_state' = [local_state EXCEPT ![p] = Drop(@, ns, key)]
    /\ own_write' = Disturb(p, ns, key, NoTask, None)
    /\ call' = [call EXCEPT ![t] = [op |-> "delete", ns |-> ns, key |-> key, value |-> None]]
    /\ IF is_connected[p]
       THEN /\ Suspend(t, "delete_store", after)
            /\ UNCHANGED ret
       ELSE ReturnVia(t, SetResult(TRUE), after)

\* lines 147-148: await self.redis.delete(full_key)
DeleteStateStore(t) ==
    /\ running = NoTask
    /\ pc[t] = "delete_store"
    /\ \/ /\ reachable
          /\ redis' = Del(redis, FullKey(call[t].ns, call[t].key))
          /\ pc' = [pc EXCEPT ![t] = "delete_publish"]
          /\ UNCHANGED <<failures, ret, cont, running>>
       \/ /\ Fails
          /\ failures' = FailuresAfter
          /\ ReturnTo(t, SetResult(FALSE))
          /\ UNCHANGED redis
    /\ UNCHANGED <<cfgVars, lsnVars, recVars, pubsub, published, mgrVars, mirrorVars, cb_log, applied,
                   call, ops, boot, now, chatVars, gwVars>>

DeleteMessage(ns, key) ==
    [channel |-> Channel(ns),
     data |-> JsonDumps([type |-> "state_delete", namespace |-> ns, key |-> key])]

\* lines 150-158: await self.redis.publish(...), then return True
DeleteStatePublish(t) ==
    /\ running = NoTask
    /\ pc[t] = "delete_publish"
    /\ \/ /\ reachable
          /\ pubsub' = Deliver(call[t].ns, DeleteMessage(call[t].ns, call[t].key))
          /\ published' = published + 1
          /\ ReturnTo(t, SetResult(TRUE))
          /\ UNCHANGED failures
       \/ /\ Fails
          /\ failures' = FailuresAfter
          /\ ReturnTo(t, SetResult(FALSE))
          /\ UNCHANGED <<pubsub, published>>
    /\ UNCHANGED <<cfgVars, lsnVars, recVars, redis, mgrVars, mirrorVars, cb_log, applied, call, ops,
                   boot, now, chatVars, gwVars>>

\* ------------------------------------------------ StateManager.get_all_states
\* the keys of a dictionary as a list
RECURSIVE KeyList(_)
KeyList(ks) ==
    IF ks = {} THEN <<>>
    ELSE LET k == CHOOSE x \in ks : TRUE IN <<k>> \o KeyList(ks \ {k})

\* dict.update / result[k] = v for every k of `over`: the entries of `over` win
Update(d, over) ==
    [k \in DOMAIN d \cup DOMAIN over |-> IF k \in DOMAIN over THEN over[k] ELSE d[k]]

\* lines 304-308: result = {} updated with the mirror entries of the namespace
GetAllLocal(t, ns) ==
    LET p == ProcOf(t)
        result == Update(EmptyDict, Lookup(local_state[p], ns))
    IN
    /\ call' = [call EXCEPT ![t] = [op |-> "get_all", ns |-> ns, key |-> <<>>, value |-> result]]
    /\ IF is_connected[p]
       THEN /\ Suspend(t, "all_keys", <<>>)
            /\ UNCHANGED ret
       ELSE ReturnVia(t, GetResult(result, FALSE), <<>>)

\* lines 314-316: keys = await self.redis.keys(f"{namespace}:*"); no key, or a failure,
\* returns the mirror entries
GetAllKeys(t) ==
    LET keys == {fk \in DOMAIN redis : fk[1] = call[t].ns} IN
    /\ running = NoTask
    /\ pc[t] = "all_keys"
    /\ \/ /\ reachable
          /\ keys # {}
          /\ call' = [call EXCEPT ![t].key = KeyList(keys)]
          /\ pc' = [pc EXCEPT ![t] = "all_mget"]
          /\ UNCHANGED <<failures, ret, cont, running>>
       \/ /\ reachable
          /\ keys = {}
          /\ ReturnTo(t, GetResult(call[t].value, TRUE))
          /\ UNCHANGED <<failures, call>>
       \/ /\ Fails
          /\ failures' = FailuresAfter
          /\ ReturnTo(t, GetResult(call[t].value, TRUE))
          /\ UNCHANGED call
    /\ UNCHANGED <<cfgVars, lsnVars, recVars, redis, pubsub, published, mgrVars, mirrorVars, cb_log, applied,
                   ops, boot, now, chatVars, gwVars>>

\* lines 318-326: values = await self.redis.mget(keys); every key that still has a value
\* is written into result under its name without the namespace prefix
GetAllValues(t) ==
    LET keys == call[t].key
        present == {i \in 1..Len(keys) : Has(redis, keys[i])}
        stored == [k \in {keys[i][2] : i \in present} |-> JsonLoads(redis[FullKey(call[t].ns, k)])]
    IN
    /\ running = NoTask
    /\ pc[t] = "all_mget"
    /\ \/ /\ reachable
          /\ ReturnTo(t, GetResult(Update(call[t].value, stored), TRUE))
          /\ UNCHANGED failures
       \/ /\ Fails
          /\ failures' = FailuresAfter
          /\ ReturnTo(t, GetResult(call[t].value, TRUE))
    /\ UNCHANGED <<cfgVars, lsnVars, recVars, redis, pubsub, published, mgrVars, mirrorVars, cb_log, applied,
                   call, ops, boot, now, chatVars, gwVars>>

\* ------------------------------------------------------------ chat values
\* strings that get trimmed are sequences of characters
Texts == {<<>>, <<" ">>, <<"x">>, <<" ", "x">>}

\* str.strip()
RECURSIVE LStrip(_)
LStrip(s) == IF s # <<>> /\ Head(s) = " " THEN LStrip(Tail(s)) ELSE s
RECURSIVE RStrip(_)
RStrip(s) == IF s # <<>> /\ s[Len(s)] = " " THEN RStrip(SubSeq(s, 1, Len(s) - 1)) ELSE s
Strip(s) == RStrip(LStrip(s))

NoMessage == [id |-> <<0, 0>>, room |-> "", user_id |-> "", content |-> <<>>, type |-> "",
              timestamp |-> 0]
NoCaption == [text |-> <<>>, is_final |-> FALSE, language |-> "", timestamp |-> 0]

\* Python truthiness of a propagated value: None is false, a message or caption dict is true
Truthy(v) == v # None

InitChatVars ==
    /\ now = 0
    /\ room_messages = [p \in Procs |-> EmptyDict]
    /\ captions = [p \in Procs |-> EmptyDict]
    /\ message_counter = [p \in Procs |-> 0]
    /\ message_of = [t \in Tasks |-> NoMessage]
    /\ caption_of = [t \in Tasks |-> NoCaption]

\* ---------------------------------------- TextChatManager._handle_message_update
\* mutant: a null value empties the log of the room
HandleMessageUpdate_ClearsOnNull(rm, key, value) ==
    IF Truthy(value) THEN Put(rm, key[1], Append(ListOf(rm, key[1]), value))
    ELSE IF Has(rm, key[1]) THEN Put(rm, key[1], <<>>) ELSE rm

\* text_chat.py lines 41-59: a null value is ignored (lines 49-50); any other value is
\* appended to the log of the room the key names
HandleMessageUpdate(rm, key, value) ==
    IF Truthy(value) THEN Put(rm, key[1], Append(ListOf(rm, key[1]), value))
    ELSE rm

\* text_chat.py lines 41-67, once per invocation
RECURSIVE HandleMessageUpdates(_, _)
HandleMessageUpdates(rm, invs) ==
    IF invs = <<>> THEN rm
    ELSE HandleMessageUpdates(HandleMessageUpdate(rm, Head(invs)[1], Head(invs)[2]),
                              Tail(invs))

\* ---------------------------------------- TextChatManager._handle_caption_update
\* text_chat.py lines 69-103: the key is "room:user_id"; keys are kept split at ":"
RECURSIVE HandleCaptionUpdates(_, _)
HandleCaptionUpdates(cs, invs) ==
    IF invs = <<>> THEN cs
    ELSE LET parts == Head(invs)[1]
             value == Head(invs)[2]
         IN HandleCaptionUpdates(
                IF Truthy(value) /\ Len(parts) = 2
                THEN Put(cs, parts[1], Put(Lookup(cs, parts[1]), parts[2], value))
                ELSE cs,
                Tail(invs))

\* ------------------------------------------------ StateManager._message_handler
\* the (key, value) pairs a callback list delivers to callback c
Invocations(cbs, c, key, value) ==
    LET RECURSIVE Inv(_)
        Inv(s) == IF s = <<>> THEN <<>>
                  ELSE (IF Head(s) = c THEN <<<<key, value>>>> ELSE <<>>) \o Inv(Tail(s))
    IN Inv(cbs)

\* a set is iterated in one order for as long as it is not changed
ListenerOrder == <<"lA", "lB">>
Iterate(S) == SelectSeq(ListenerOrder, LAMBDA l : l \in S)

\* the callbacks and listeners that raise after they were invoked
Faulty == {"cbB", "lA"}

\* the (listener, argument) pairs of `for listener in listeners[room]: await listener(arg)`
Calls(listeners, room, arg) ==
    IF Has(listeners, room)
    THEN LET order == Iterate(listeners[room])
         IN [i \in 1..Len(order) |-> <<order[i], arg>>]
    ELSE <<>>

\* the listener invocations of one event, callback by callback: text_chat.py lines 62-67
\* (the message itself) and 97-103 (room, user_id and the caption)
RECURSIVE ListenerCalls(_, _, _, _)
ListenerCalls(p, cbs, key, value) ==
    IF cbs = <<>> THEN <<>>
    ELSE (IF Head(cbs) = "_handle_message_update" /\ Truthy(value)
          THEN Calls(message_listeners[p], key[1], value)
          ELSE IF Head(cbs) = "_handle_caption_update" /\ Truthy(value) /\ Len(key) = 2
          THEN Calls(caption_listeners[p], key[1],
                     [room |-> key[1], user_id |-> key[2], caption |-> value])
          ELSE <<>>)
         \o ListenerCalls(p, Tail(cbs), key, value)

\* every listener of `calls` is invoked with its argument
RECURSIVE Hear(_, _)
Hear(h, calls) ==
    IF calls = <<>> THEN h
    ELSE Hear([h EXCEPT ![Head(calls)[1]] = Append(@, Head(calls)[2])], Tail(calls))

\* of a loop over `calls` in which the stop-th invocation suspends (none if stop = 0):
\* the invocations begun, and those left for after the suspension
Begun(calls, stop) == IF stop = 0 THEN calls ELSE SubSeq(calls, 1, stop)
Left(calls, stop) == SubSeq(calls, stop + 1, Len(calls))

\* json.loads raises on a text that json.dumps did not write
Decodable(text) == Len(text) = 2 /\ text[1] = "json"

\* line 247 (json.loads) and lines 256-258, 273-274 (data["type"], data["key"],
\* data["value"]): the payload makes the handler raise before it touches the mirror
Raises(p, message) ==
    \/ ~Decodable(message.data)
    \/ /\ Len(message.channel) = 2
       /\ message.channel[1] = "state_updates"
       /\ Has(subscribers[p], message.channel[2])
       /\ LET data == JsonLoads(message.data)
          IN \/ "type" \notin DOMAIN data
             \/ /\ data.type = "state_update"
                /\ ~({"key", "value"} \subseteq DOMAIN data)
             \/ /\ data.type = "state_delete"
                /\ "key" \notin DOMAIN data

\* lines 250-256, 272: the event is for a subscribed namespace and of a known type
Applies(p, message) ==
    /\ ~Raises(p, message)
    /\ Len(message.channel) = 2
    /\ message.channel[1] = "state_updates"
    /\ Has(subscribers[p], message.channel[2])
    /\ JsonLoads(message.data).type \in {"state_update", "state_delete"}

\* an idle _message_handler task of p has a message to take
HandlerReady(p) ==
    /\ running = NoTask
    /\ is_connected[p]
    /\ handlers[p] > Len(dispatching[p])
    /\ pubsub[p].buffer # <<>>

\* mutant: the callbacks are invoked last registered first
Callees_Reversed(p) ==
    LET ns == Head(pubsub[p].buffer).channel[2]
        all == IF Has(subscribers[p], ns) THEN subscribers[p][ns] ELSE <<>>
    IN [i \in 1..Len(all) |-> all[Len(all) + 1 - i]]

\* mutant: a callback that raises ends the loop over the callbacks
Callees_UpToRaise(p) ==
    LET ns == Head(pubsub[p].buffer).channel[2]
        all == IF Has(subscribers[p], ns) THEN subscribers[p][ns] ELSE <<>>
        bad == {i \in 1..Len(all) : all[i] \in Faulty}
    IN IF bad = {} THEN all
       ELSE SubSeq(all, 1, CHOOSE i \in bad : \A j \in bad : i <= j)

\* lines 265-269, 280-284: the callbacks subscribed to the namespace of the message at
\* the head of the buffer; each is awaited inside its own try, so one that raises is
\* logged and the next is invoked
Callees(p) ==
    LET ns == Head(pubsub[p].buffer).channel[2]
    IN IF Has(subscribers[p], ns) THEN subscribers[p][ns] ELSE <<>>

\* the positions of the callbacks in cbs that invoke a listener for (key, value)
Listening(p, cbs, key, value) ==
    {i \in 1..Len(cbs) : ListenerCalls(p, <<cbs[i]>>, key, value) # <<>>}

\* the callbacks of cbs invoked before the task suspends in the stop-th listener
\* invocation: all of them with stop = 0, else those up to the one callback that
\* invokes listeners
Reached(p, cbs, key, value, stop) ==
    IF stop = 0 THEN cbs
    ELSE SubSeq(cbs, 1, CHOOSE i \in Listening(p, cbs, key, value) : TRUE)

\* callbacks of other components that await something of their own (any coroutine may
\* be subscribed, lines 166-170); their invocations are not recorded in cb_log
Awaiting == {"cbS"}

\* lines 242-290: the message is taken and dispatched to the callbacks `called`; the
\* stop-th listener invocation suspends the task (none if stop = 0), or the at-th
\* callback does in an await of its own (none if at = 0); `fatal` tells whether an
\* exception ends the task
DispatchUpTo(p, called, stop, at, fatal) ==
    /\ LET message == Head(pubsub[p].buffer)
           ns == message.channel[2]
           data == JsonLoads(message.data)
       IN /\ pubsub' = [pubsub EXCEPT ![p].buffer = Tail(@)]
          /\ applied' = [applied EXCEPT ![p] = @ + 1]
          /\ IF Applies(p, message)
             THEN LET value == IF data.type = "state_update" THEN data.value ELSE None
                      calls == ListenerCalls(p, called, data.key, value)
                      reached == IF at = 0 THEN Reached(p, called, data.key, value, stop)
                                 ELSE SubSeq(called, 1, at)
                  IN
                  /\ stop <= Len(calls)
                  /\ at <= Len(called)
                  /\ at > 0 => /\ stop = 0
                               /\ called[at] \in Awaiting
                               /\ ListenerCalls(p, reached, data.key, value) = <<>>
                  /\ stop > 0 => Cardinality(Listening(p, called, data.key, value)) = 1
                  /\ local_state' = [local_state EXCEPT
                         ![p] = IF data.type = "state_update"
                                THEN Put(@, ns, Put(Lookup(@, ns), data.key, data.value))
                                ELSE Drop(@, ns, data.key)]
                  /\ own_write' = Disturb(p, ns, data.key, NoTask, None)
                  /\ cb_log' = [cb_log EXCEPT ![p] =
                         [c \in Callbacks |-> @[c] \o Invocations(reached, c, data.key, value)]]
                  /\ room_messages' = [room_messages EXCEPT ![p] =
                         HandleMessageUpdates(@, Invocations(reached, "_handle_message_update",
                                                             data.key, value))]
                  /\ captions' = [captions EXCEPT ![p] =
                         HandleCaptionUpdates(@, Invocations(reached, "_handle_caption_update",
                                                             data.key, value))]
                  /\ heard' = [heard EXCEPT ![p] =
                         Hear(@, IF at = 0 THEN Begun(calls, stop) ELSE <<>>)]
                  /\ dispatching' =
                         IF stop = 0 /\ at = 0 THEN dispatching
                         ELSE [dispatching EXCEPT ![p] =
                                  Append(@, [calls |-> IF at = 0 THEN Left(calls, stop)
                                                       ELSE <<>>,
                                             list |-> called, at |-> Len(reached),
                                             ns |-> ns, attached |-> TRUE,
                                             key |-> data.key, value |-> value])]
                  /\ handlers' = handlers
             ELSE /\ stop = 0
                  /\ at = 0
                  /\ handlers' = IF fatal /\ Raises(p, message)
                                 THEN [handlers EXCEPT ![p] = @ - 1]
                                 ELSE handlers
                  /\ UNCHANGED <<local_state, own_write, cb_log, room_messages, captions,
                                 heard, dispatching>>
    /\ UNCHANGED <<cfgVars, message_listeners, caption_listeners, recVars, redis, failures,
                   published, is_connected, subscribers, ctlVars, call, ops,
                   boot, now, message_counter, message_of, caption_of, gwVars>>

\* the same when no callback awaits anything but the listeners
Dispatch(p, called, stop, fatal) == DispatchUpTo(p, called, stop, 0, fatal)

\* mutant: an exception ends the listener task
HandlerStep_DiesOnMalformed(p) ==
    /\ HandlerReady(p)
    /\ Dispatch(p, Callees(p), 0, TRUE)

\* mutant: the dispatch loop stops after the first callback
HandlerStep_FirstCallbackOnly(p) ==
    /\ HandlerReady(p)
    /\ Dispatch(p, IF Callees(p) = <<>> THEN <<>> ELSE <<Head(Callees(p))>>, 0, FALSE)

\* lines 239-292: one message taken from the PubSub object and dispatched, no listener
\* suspending; an exception is logged and the loop goes on
HandlerStep(p) ==
    /\ HandlerReady(p)
    /\ Dispatch(p, Callees(p), 0, FALSE)

\* lines 239-292 with text_chat.py lines 62-67: the same, with the stop-th listener
\* suspending the task inside `await listener(message)`
HandlerListen(p, stop) ==
    /\ HandlerReady(p)
    /\ stop > 0
    /\ Dispatch(p, Callees(p), stop, FALSE)

\* mutant: the poll has no timeout, the loop condition is tested only after a message
HandlerExit_BlockingPoll(p) ==
    /\ running = NoTask
    /\ ~is_connected[p]
    /\ handlers[p] > Len(dispatching[p])
    /\ pubsub[p].buffer # <<>>
    /\ handlers' = [handlers EXCEPT ![p] = @ - 1]
    /\ UNCHANGED <<cfgVars, lsnVars, recVars, storeVars, is_connected, subscribers, mirrorVars,
                   cb_log, applied, ctlVars, call, ops, boot, now, chatVars, gwVars>>

\* lines 239-242 and 292: a listener task that is not inside a callback comes back from
\* its poll (at most 1.0 s) and its sleep, finds `self.is_connected` false at the loop
\* test and ends
HandlerExit(p) ==
    /\ running = NoTask
    /\ ~is_connected[p]
    /\ handlers[p] > Len(dispatching[p])
    /\ handlers' = [handlers EXCEPT ![p] = @ - 1]
    /\ UNCHANGED <<cfgVars, lsnVars, recVars, storeVars, is_connected, subscribers, mirrorVars,
                   cb_log, applied, ctlVars, call, ops, boot, now, chatVars, gwVars>>

\* lines 239-292, the at-th callback suspending the task in an await of its own
HandlerAwait(p, at) ==
    /\ HandlerReady(p)
    /\ at > 0
    /\ DispatchUpTo(p, Callees(p), 0, at, FALSE)

\* lines 265 and 281: the callbacks a suspended loop has yet to reach.  The list
\* iterator holds a position; the elements beyond it in the list as it is now are the
\* ones still to come
Rest(d) == SubSeq(d.list, d.at + 1, Len(d.list))

\* text_chat.py lines 62-67 and state_sync.py lines 265-269: the listener that suspended
\* the i-th waiting delivery returns and the loop goes on, up to the next listener that
\* suspends; after the last listener the callbacks not yet reached are invoked
HandlerResume(p, i, stop) ==
    /\ running = NoTask
    /\ i \in 1..Len(dispatching[p])
    /\ LET d == dispatching[p][i]
       IN /\ stop <= Len(d.calls)
          /\ heard' = [heard EXCEPT ![p] = Hear(@, Begun(d.calls, stop))]
          /\ dispatching' = [dispatching EXCEPT ![p] =
                 IF stop = 0
                 THEN SubSeq(@, 1, i - 1) \o SubSeq(@, i + 1, Len(@))
                 ELSE [@ EXCEPT ![i].calls = Left(d.calls, stop)]]
          /\ cb_log' = IF stop = 0
                       THEN [cb_log EXCEPT ![p] =
                                [c \in Callbacks |->
                                    @[c] \o Invocations(Rest(d), c, d.key, d.value)]]
                       ELSE cb_log
    /\ UNCHANGED <<cfgVars, message_listeners, caption_listeners, recVars, storeVars, mgrVars,
                   mirrorVars, applied, ctlVars, call, ops, boot, now, chatVars, gwVars>>

\* ------------------------------------------------ TextChatManager.send_message
\* text_chat.py lines 124-146: id, message, append to the room log, then either
\* set_state (replication enabled) or the local listeners
SendMessageBegin(t, room_name, user_id, content, message_type, after) ==
    LET p == ProcOf(t)
        message == [id |-> <<now, message_counter[p] + 1>>, room |-> room_name,
                    user_id |-> user_id, content |-> content, type |-> message_type,
                    timestamp |-> now]
    IN
    /\ message_counter' = [message_counter EXCEPT ![p] = @ + 1]
    /\ room_messages' = [room_messages EXCEPT
           ![p] = Put(@, room_name, Append(ListOf(@, room_name), message))]
    /\ message_of' = [message_of EXCEPT ![t] = message]
    /\ IF REDIS_ENABLED
       THEN SetStateLocal(t, NsChat, <<room_name>>, message, <<"sm_after_set">> \o after)
       ELSE /\ Resume(t, (IF Has(message_listeners[p], room_name) THEN <<"sm_notify">> ELSE <<>>)
                          \o <<"sm_after_set">> \o after)
            /\ UNCHANGED <<local_state, own_write, call, ret>>

\* a loop `for listener in listeners: try: await listener(arg) except Exception: ...` of
\* task t over the listeners `names`: the stop-th invocation suspends the task at
\* `label` (none if stop = 0, and the loop ends); a listener that raises is logged and
\* the loop goes on
NotifyLoop(t, names, arg, stop, label) ==
    LET calls == [i \in 1..Len(names) |-> <<names[i], arg>>]
    IN /\ stop <= Len(calls)
       /\ heard' = [heard EXCEPT ![ProcOf(t)] = Hear(@, Begun(calls, stop))]
       /\ call' = [call EXCEPT ![t] =
              [op |-> "notify", ns |-> label,
               key |-> IF stop = 0 THEN <<>> ELSE SubSeq(names, stop + 1, Len(names)),
               value |-> arg]]
       /\ IF stop = 0 THEN Resume(t, cont[t]) ELSE Suspend(t, label, cont[t])
       /\ UNCHANGED <<cfgVars, message_listeners, caption_listeners, dispatching, recVars,
                      storeVars, mgrVars, mirrorVars, cb_log, applied, ret, ops, boot, now,
                      chatVars, gwVars>>

\* text_chat.py lines 147-154: without replication the listeners of the room are
\* invoked directly, one after the other
NotifyMessageListeners(t, stop) ==
    /\ running = t
    /\ pc[t] = "sm_notify"
    /\ NotifyLoop(t, Iterate(message_listeners[ProcOf(t)][message_of[t].room]), message_of[t],
                  stop, "sm_listening")

\* text_chat.py lines 151-154: the listener that suspended the task returns
MessageListenerReturn(t, stop) ==
    /\ running = NoTask
    /\ pc[t] = "sm_listening"
    /\ NotifyLoop(t, call[t].key, call[t].value, stop, "sm_listening")

\* text_chat.py lines 156-167: the audit log entry, return message
SendMessageReturn(t) ==
    /\ running = t
    /\ pc[t] = "sm_after_set"
    /\ Resume(t, cont[t])
    /\ UNCHANGED <<cfgVars, lsnVars, recVars, storeVars, mgrVars, mirrorVars, cb_log, applied, ret, call,
                   ops, boot, now, chatVars, gwVars>>

\* ---------------------------------------------- TextChatManager.update_caption
\* text_chat.py lines 190-211: the caption is stored, then a final caption with
\* text left after trimming is sent as a message
UpdateCaptionBegin(t, room_name, user_id, text, is_final, language, after) ==
    LET p == ProcOf(t)
        caption == [text |-> text, is_final |-> is_final, language |-> language,
                    timestamp |-> now]
    IN
    /\ captions' = [captions EXCEPT
           ![p] = Put(@, room_name, Put(Lookup(@, room_name), user_id, caption))]
    /\ caption_of' = [caption_of EXCEPT ![t] = caption]
    /\ IF is_final /\ Strip(text) # <<>>
       THEN SendMessageBegin(t, room_name, user_id, text, "caption",
                             <<"uc_after_send">> \o after)
       ELSE /\ Resume(t, <<"uc_after_send">> \o after)
            /\ UNCHANGED <<message_counter, room_messages, message_of, local_state,
                           own_write, call, ret>>

\* text_chat.py lines 213-217: the caption goes to set_state (replication enabled) or to
\* the local caption listeners
UpdateCaptionSync(t) ==
    /\ running = t
    /\ pc[t] = "uc_after_send"
    /\ IF REDIS_ENABLED
       THEN SetStateLocal(t, NsCaptions, <<RoomOf(t), UserOf(t)>>, caption_of[t],
                          <<"uc_after_set">> \o cont[t])
       ELSE /\ Resume(t, (IF Has(caption_listeners[ProcOf(t)], RoomOf(t))
                           THEN <<"uc_notify">> ELSE <<>>)
                          \o <<"uc_after_set">> \o cont[t])
            /\ UNCHANGED <<local_state, own_write, call, ret>>
    /\ UNCHANGED <<cfgVars, lsnVars, recVars, storeVars, mgrVars, cb_log, applied, ops, boot, now,
                   chatVars, gwVars>>

\* text_chat.py lines 218-228: without replication the caption listeners of the room are
\* invoked directly with room, user_id and the caption
NotifyCaptionListeners(t, stop) ==
    /\ running = t
    /\ pc[t] = "uc_notify"
    /\ NotifyLoop(t, Iterate(caption_listeners[ProcOf(t)][RoomOf(t)]),
                  [room |-> RoomOf(t), user_id |-> UserOf(t), caption |-> caption_of[t]],
                  stop, "uc_listening")

\* text_chat.py lines 221-228: the caption listener that suspended the task returns
CaptionListenerReturn(t, stop) ==
    /\ running = NoTask
    /\ pc[t] = "uc_listening"
    /\ NotifyLoop(t, call[t].key, call[t].value, stop, "uc_listening")

\* text_chat.py lines 283-298 and 318-333: a listener is added to the set of its room
AddMessageListener(p, room_name, listener) ==
    /\ running = NoTask
    /\ message_listeners' = [message_listeners EXCEPT
           ![p] = Put(@, room_name, (IF Has(@, room_name) THEN @[room_name] ELSE {})
                                    \cup {listener})]
    /\ UNCHANGED <<cfgVars, caption_listeners, heard, dispatching, recVars, storeVars, mgrVars,
                   mirrorVars, cb_log, applied, ctlVars, call, ops, boot, now, chatVars, gwVars>>

AddCaptionListener(p, room_name, listener) ==
    /\ running = NoTask
    /\ caption_listeners' = [caption_listeners EXCEPT
           ![p] = Put(@, room_name, (IF Has(@, room_name) THEN @[room_name] ELSE {})
                                    \cup {listener})]
    /\ UNCHANGED <<cfgVars, message_listeners, heard, dispatching, recVars, storeVars, mgrVars,
                   mirrorVars, cb_log, applied, ctlVars, call, ops, boot, now, chatVars, gwVars>>

\* text_chat.py line 230: return caption
UpdateCaptionReturn(t) ==
    /\ running = t
    /\ pc[t] = "uc_after_set"
    /\ Resume(t, cont[t])
    /\ UNCHANGED <<cfgVars, lsnVars, recVars, storeVars, mgrVars, mirrorVars, cb_log, applied, ret, call,
                   ops, boot, now, chatVars, gwVars>>

\* the wall clock advances
Tick ==
    /\ now < MaxClock
    /\ now' = now + 1
    /\ UNCHANGED <<cfgVars, lsnVars, recVars, storeVars, mgrVars, mirrorVars, cb_log, applied, ctlVars,
                   call, ops, boot, chatVars, gwVars>>

\* ------------------------------------------------------- application startup
\* main.py lines 50-59: startup_event connects when replication is enabled
StartupEvent(p) ==
    /\ boot[p] = "off"
    /\ IF REDIS_ENABLED
       THEN Connect(p)
       ELSE /\ running = NoTask
            /\ UNCHANGED <<cfgVars, lsnVars, recVars, storeVars, mgrVars, mirrorVars, cb_log, applied,
                           ctlVars, call, ops, now, chatVars, gwVars>>
    /\ boot' = [boot EXCEPT ![p] = "started"]

\* text_chat.py lines 31-33: initialize connects again when replication is enabled
InitializeConnect(p) ==
    /\ boot[p] = "started"
    /\ IF REDIS_ENABLED
       THEN Connect(p)
       ELSE /\ running = NoTask
            /\ UNCHANGED <<cfgVars, lsnVars, recVars, storeVars, mgrVars, mirrorVars, cb_log, applied,
                           ctlVars, call, ops, now, chatVars, gwVars>>
    /\ boot' = [boot EXCEPT ![p] = IF REDIS_ENABLED THEN "connected" ELSE "ready"]

\* text_chat.py lines 35-36
InitializeSubscribeMessages(p) ==
    /\ boot[p] = "connected"
    /\ Subscribe(p, NsChat, "_handle_message_update")
    /\ boot' = [boot EXCEPT ![p] = "subscribed"]

\* text_chat.py lines 38-39
InitializeSubscribeCaptions(p) ==
    /\ boot[p] = "subscribed"
    /\ Subscribe(p, NsCaptions, "_handle_caption_update")
    /\ boot' = [boot EXCEPT ![p] = "ready"]

\* main.py lines 73-78: shutdown_event disconnects when replication is enabled
ShutdownEvent(p) ==
    /\ boot[p] = "ready"
    /\ IF REDIS_ENABLED
       THEN Disconnect(p)
       ELSE /\ running = NoTask
            /\ UNCHANGED <<cfgVars, lsnVars, recVars, storeVars, mgrVars, mirrorVars, cb_log, applied,
                           ctlVars, call, ops, now, chatVars, gwVars>>
    /\ boot' = [boot EXCEPT ![p] = "down"]

\* ------------------------------------------------------- RecordingManager
\* what the remote service (the egress API, Twilio) does with a request: it carries it
\* out, or the request fails (an error status, an exception, a reply without id)
RemoteOutcomes == {"ok", "refused"}

\* the result of a controller operation: the success flag, the text that explains it,
\* the id it names, and whether the call raised instead of returning
Reply(success, message, id) ==
    [success |-> success, raised |-> FALSE, message |-> message, id |-> id]
NoReply == [success |-> FALSE, raised |-> FALSE, message |-> "none", id |-> <<>>]

\* f"rec_{room_name}_{uuid}": an id no earlier call produced
RecordingId(reg, room_name) == <<"rec", room_name, Cardinality(DOMAIN reg) + 1>>

\* mutant: only a recording that is still active declines a new one for its room
StartRecording_ActiveOnly(reg, enabled, room_name, o) ==
    LET same == {id \in DOMAIN reg : reg[id].room_name = room_name /\ reg[id].status = "active"}
    IN IF ~enabled
       THEN [reply |-> Reply(FALSE, "disabled", <<>>), reg |-> reg]
       ELSE IF same # {}
       THEN [reply |-> Reply(FALSE, "already recording", CHOOSE id \in same : TRUE),
             reg |-> reg]
       ELSE IF o = "ok"
       THEN [reply |-> Reply(TRUE, "started", RecordingId(reg, room_name)),
             reg |-> Put(reg, RecordingId(reg, room_name),
                         [room_name |-> room_name, egress_id |-> "egress",
                          status |-> "active", remote |-> "none"])]
       ELSE [reply |-> Reply(FALSE, "request failed", <<>>), reg |-> reg]

\* recording_manager.py lines 23-137: (reply, registry) of start_recording; the loop of
\* lines 54-56 returns at the first entry of the room, whatever its status
StartRecording(reg, enabled, room_name, o) ==
    LET same == {id \in DOMAIN reg : reg[id].room_name = room_name}
    IN IF ~enabled
       THEN [reply |-> Reply(FALSE, "disabled", <<>>), reg |-> reg]
       ELSE IF same # {}
       THEN [reply |-> Reply(FALSE, "already recording", CHOOSE id \in same : TRUE),
             reg |-> reg]
       ELSE IF o = "ok"
       THEN [reply |-> Reply(TRUE, "started", RecordingId(reg, room_name)),
             reg |-> Put(reg, RecordingId(reg, room_name),
                         [room_name |-> room_name, egress_id |-> "egress",
                          status |-> "active", remote |-> "none"])]
       ELSE [reply |-> Reply(FALSE, "request failed", <<>>), reg |-> reg]

\* mutant: the entry is read without the membership test
StopRecording_NoLookup(reg, enabled, recording_id, o) ==
    IF ~enabled
    THEN [reply |-> Reply(FALSE, "disabled", recording_id), reg |-> reg]
    ELSE IF ~Has(reg, recording_id)
    THEN [reply |-> [Reply(FALSE, "KeyError", recording_id) EXCEPT !.raised = TRUE],
          reg |-> reg]
    ELSE IF o = "ok"
    THEN [reply |-> Reply(TRUE, "stopped", recording_id),
          reg |-> [reg EXCEPT ![recording_id].status = "stopped"]]
    ELSE [reply |-> Reply(FALSE, "request failed", recording_id), reg |-> reg]

\* recording_manager.py lines 139-200: (reply, registry) of stop_recording; every entry
\* has an egress_id, start_recording stores none without
StopRecording(reg, enabled, recording_id, o) ==
    IF ~enabled
    THEN [reply |-> Reply(FALSE, "disabled", recording_id), reg |-> reg]
    ELSE IF ~Has(reg, recording_id)
    THEN [reply |-> Reply(FALSE, "not found", recording_id), reg |-> reg]
    ELSE IF o = "ok"
    THEN [reply |-> Reply(TRUE, "stopped", recording_id),
          reg |-> [reg EXCEPT ![recording_id].status = "stopped"]]
    ELSE [reply |-> Reply(FALSE, "request failed", recording_id), reg |-> reg]

\* recording_manager.py lines 202-260: (reply, registry) of get_recording_status
GetRecordingStatus(reg, enabled, recording_id, o) ==
    IF ~enabled
    THEN [reply |-> Reply(FALSE, "disabled", recording_id), reg |-> reg]
    ELSE IF ~Has(reg, recording_id)
    THEN [reply |-> Reply(FALSE, "not found", recording_id), reg |-> reg]
    ELSE IF o = "ok"
    THEN [reply |-> Reply(TRUE, reg[recording_id].status, recording_id),
          reg |-> [reg EXCEPT ![recording_id].remote = "fetched"]]
    ELSE [reply |-> Reply(FALSE, "request failed", recording_id), reg |-> reg]

\* ------------------------------------------------------------- SipManager
\* f"call_{uuid}": a fresh id for every call
CallId(calls) == <<"call", Cardinality(DOMAIN calls) + 1>>

\* sip_manager.py lines 150-210: (reply, registry) of handle_incoming_call
HandleIncomingCall(calls, room_name) ==
    [reply |-> Reply(TRUE, "twiml", CallId(calls)),
     reg |-> Put(calls, CallId(calls),
                 [room_name |-> room_name, twilio_call_sid |-> "sid",
                  status |-> "connected", remote |-> "none"])]

\* sip_manager.py lines 212-252: (reply, registry) of end_call; a request to Twilio that
\* fails, or a client that was never built, raises inside the try
EndCall(calls, call_id, o) ==
    IF ~Has(calls, call_id)
    THEN [reply |-> Reply(FALSE, "not found", call_id), reg |-> calls]
    ELSE IF o = "ok"
    THEN [reply |-> Reply(TRUE, "ended", call_id),
          reg |-> [calls EXCEPT ![call_id].status = "ended"]]
    ELSE [reply |-> Reply(FALSE, "request failed", call_id), reg |-> calls]

\* sip_manager.py lines 254-295: (reply, registry) of get_call_status
GetCallStatus(calls, call_id, o) ==
    IF ~Has(calls, call_id)
    THEN [reply |-> Reply(FALSE, "not found", call_id), reg |-> calls]
    ELSE IF o = "ok"
    THEN [reply |-> Reply(TRUE, calls[call_id].status, call_id),
          reg |-> [calls EXCEPT ![call_id].remote = "fetched"]]
    ELSE [reply |-> Reply(FALSE, "request failed", call_id), reg |-> calls]

\* a task calls one operation of a controller: none of them awaits anything, the call
\* runs to its return in one piece
Controller(t, op, id, result) ==
    /\ running = NoTask
    /\ pc[t] \in {"idle", "returned"}
    /\ ops < MaxOps
    /\ ops' = ops + 1
    /\ call' = [call EXCEPT ![t] = [op |-> op, ns |-> "", key |-> id, value |-> None]]
    /\ replies' = [replies EXCEPT ![t] = result.reply]
    /\ pc' = [pc EXCEPT ![t] = "returned"]
    /\ UNCHANGED <<cfgVars, lsnVars, RECORDING_ENABLED, storeVars, mgrVars, mirrorVars, cb_log,
                   applied, cont, ret, running, boot, now, chatVars, gwVars>>

CtlStartRecording(t, room_name, o) ==
    LET result == StartRecording(active_recordings[ProcOf(t)], RECORDING_ENABLED, room_name, o)
    IN /\ Controller(t, "start_recording", <<room_name>>, result)
       /\ active_recordings' = [active_recordings EXCEPT ![ProcOf(t)] = result.reg]
       /\ UNCHANGED active_calls

CtlStopRecording(t, recording_id, o) ==
    LET result == StopRecording(active_recordings[ProcOf(t)], RECORDING_ENABLED, recording_id, o)
    IN /\ Controller(t, "stop_recording", recording_id, result)
       /\ active_recordings' = [active_recordings EXCEPT ![ProcOf(t)] = result.reg]
       /\ UNCHANGED active_calls

CtlRecordingStatus(t, recording_id, o) ==
    LET result == GetRecordingStatus(active_recordings[ProcOf(t)], RECORDING_ENABLED,
                                     recording_id, o)
    IN /\ Controller(t, "get_recording_status", recording_id, result)
       /\ active_recordings' = [active_recordings EXCEPT ![ProcOf(t)] = result.reg]
       /\ UNCHANGED active_calls

CtlIncomingCall(t, room_name) ==
    LET result == HandleIncomingCall(active_calls[ProcOf(t)], room_name)
    IN /\ Controller(t, "handle_incoming_call", <<room_name>>, result)
       /\ active_calls' = [active_calls EXCEPT ![ProcOf(t)] = result.reg]
       /\ UNCHANGED active_recordings

CtlEndCall(t, call_id, o) ==
    LET result == EndCall(active_calls[ProcOf(t)], call_id, o)
    IN /\ Controller(t, "end_call", call_id, result)
       /\ active_calls' = [active_calls EXCEPT ![ProcOf(t)] = result.reg]
       /\ UNCHANGED active_recordings

CtlCallStatus(t, call_id, o) ==
    LET result == GetCallStatus(active_calls[ProcOf(t)], call_id, o)
    IN /\ Controller(t, "get_call_status", call_id, result)
       /\ active_calls' = [active_calls EXCEPT ![ProcOf(t)] = result.reg]
       /\ UNCHANGED active_recordings

\* ------------------------------------------------------------- the gateway
\* an outbound frame; `from` names the connection whose handler built it
NoFrame == [type |-> "", from |-> "", user_id |-> "", message |-> NoMessage,
            messages |-> <<>>, captions |-> EmptyDict, caption |-> NoCaption,
            success |-> FALSE, text |-> "", recording_id |-> <<>>]
SystemFrame(c) == [NoFrame EXCEPT !.type = "system", !.from = c, !.user_id = UserOf(c)]
HistoryFrame(c, messages) == [NoFrame EXCEPT !.type = "history", !.from = c,
                                             !.messages = messages]
CaptionsFrame(c, caps) == [NoFrame EXCEPT !.type = "captions", !.from = c, !.captions = caps]
MessageFrame(c, message) == [NoFrame EXCEPT !.type = "message", !.from = c,
                                            !.message = message]
CaptionFrame(c, caption) == [NoFrame EXCEPT !.type = "caption", !.from = c,
                                            !.user_id = UserOf(c), !.caption = caption]

\* main.py lines 356-361 and 371-376; `text` is the frame's "message" entry
StatusFrame(c, reply) == [NoFrame EXCEPT !.type = "recording_status", !.from = c,
                                         !.success = reply.success, !.text = reply.message,
                                         !.recording_id = reply.id]

InitGatewayVars ==
    /\ active_websockets = [p \in Procs |-> EmptyDict]
    /\ sock = [c \in Conns |-> "new"]
    /\ inbox = [c \in Conns |-> <<>>]
    /\ target = [t \in Tasks |-> NoTask]
    /\ it = [t \in Tasks |-> 0]
    /\ stay = [t \in Tasks |-> {}]
    /\ sending = [t \in Tasks |-> NoFrame]
    /\ frames = 0

\* text_chat.py lines 18 and 24: no listener after construction
InitListenerVars ==
    /\ message_listeners = [p \in Procs |-> EmptyDict]
    /\ caption_listeners = [p \in Procs |-> EmptyDict]
    /\ heard = [p \in Procs |-> [l \in Listeners |-> <<>>]]
    /\ dispatching = [p \in Procs |-> <<>>]

\* recording_manager.py line 21, sip_manager.py line 14: empty registries; recording
\* is off unless the environment enables it (settings.py line 29)
InitRegistries ==
    /\ active_recordings = [p \in Procs |-> EmptyDict]
    /\ active_calls = [p \in Procs |-> EmptyDict]
    /\ replies = [t \in Tasks |-> NoReply]

InitControlVars ==
    /\ RECORDING_ENABLED = FALSE
    /\ InitRegistries

\* the history request of the endpoint: get_room_messages(room_name, limit=50)
HistoryLimit == 50
\* before_id=None
NoId == <<0, 0>>

\* s[-n:] for n >= 0: the slice starts n places before the end, and -0 is the start
SliceFromEnd(s, n) ==
    IF n = 0 \/ n >= Len(s) THEN s ELSE SubSeq(s, Len(s) - n + 1, Len(s))

\* ---------------------------------------------- TextChatManager.get_room_messages
\* mutant: the prefix keeps the message whose id is before_id
GetRoomMessages_KeepMatch(rm, room_name, limit, before_id) ==
    IF ~Has(rm, room_name) THEN <<>>
    ELSE LET messages == rm[room_name]
             found == {i \in 1..Len(messages) : messages[i].id = before_id}
             index == IF found = {} THEN 0 ELSE CHOOSE i \in found : \A j \in found : i <= j
             cut == IF before_id # NoId /\ index # 0
                    THEN SubSeq(messages, 1, index)
                    ELSE messages
         IN IF Len(cut) > limit THEN SliceFromEnd(cut, limit) ELSE cut

\* text_chat.py lines 249-266
GetRoomMessages(rm, room_name, limit, before_id) ==
    IF ~Has(rm, room_name) THEN <<>>
    ELSE LET messages == rm[room_name]
             found == {i \in 1..Len(messages) : messages[i].id = before_id}
             index == IF found = {} THEN 0 ELSE CHOOSE i \in found : \A j \in found : i <= j
             cut == IF before_id # NoId /\ index # 0
                    THEN SubSeq(messages, 1, index - 1)
                    ELSE messages
         IN IF Len(cut) > limit THEN SliceFromEnd(cut, limit) ELSE cut

\* mutant: the prefix and the tail are cut out of the stored list itself
StoredAfterGet_InPlace(rm, room_name, limit, before_id) ==
    IF Has(rm, room_name)
    THEN Put(rm, room_name, GetRoomMessages(rm, room_name, limit, before_id))
    ELSE rm

\* text_chat.py lines 249-266, the logs after the call: `messages` is bound to the
\* stored list (line 252) and then only rebound, to the slices messages[:index] (line
\* 263) and messages[-limit:] (line 266), which are new lists; no statement writes to
\* self.room_messages or to the list it holds
StoredAfterGet(rm, room_name, limit, before_id) == rm

\* active_websockets.get(room_name, [])
Registered(p, room_name) == ListOf(active_websockets[p], room_name)

\* mutant: the disconnect handler leaves the emptied list in the registry
Unregister_KeepEmptyRoom(reg, room_name, c) ==
    IF Has(reg, room_name) /\ Contains(reg[room_name], c)
    THEN Put(reg, room_name, RemoveFirst(reg[room_name], c))
    ELSE reg

\* main.py lines 398-402: the registry after the disconnect handler ran for c
Unregister(reg, room_name, c) ==
    IF Has(reg, room_name) /\ Contains(reg[room_name], c)
    THEN LET rest == RemoveFirst(reg[room_name], c)
         IN IF rest = <<>> THEN Del(reg, room_name) ELSE Put(reg, room_name, rest)
    ELSE reg

\* what awaiting send_json on the socket of b can do: an open socket takes the frame; a
\* socket whose client went away drops it, or raises WebSocketDisconnect or another error
Outcomes(b) == IF sock[b] = "open" THEN {"sent"} ELSE {"dropped", "disconnect", "error"}

\* a message broadcast of a is under way
InBroadcast(a) == pc[a] \in {"bcast", "rest_send"} /\ sending[a].type = "message"

\* connection b stopped being a registered, open peer: the running broadcasts note it
Leave(b) == [a \in Tasks |-> IF InBroadcast(a) THEN stay[a] \ {b} ELSE stay[a]]

\* ------------------------------------------------- main.websocket_endpoint
\* the handler of c ends: through the WebSocketDisconnect handler (lines 396-409), which
\* unregisters c, or through an exception no handler catches, which unregisters nothing
Terminate(c, cleanup) ==
    /\ pc' = [pc EXCEPT ![c] = "terminated"]
    /\ cont' = [cont EXCEPT ![c] = <<>>]
    /\ running' = NoTask
    /\ active_websockets' =
           IF cleanup
           THEN [active_websockets EXCEPT ![ProcOf(c)] = Unregister(@, RoomOf(c), c)]
           ELSE active_websockets
    /\ stay' = Leave(c)
    /\ target' = [target EXCEPT ![c] = NoTask]
    /\ it' = [it EXCEPT ![c] = 0]
    /\ sending' = [sending EXCEPT ![c] = NoFrame]

\* every connection of the set cs has been opened
Arrived(cs) == \A b \in cs : pc[b] # "idle"

\* lines 239-259: accept, append to the room's list, then await the welcome frame's send;
\* the client connects after the clients of the connections `after`
WsOpen(c, after) ==
    LET p == ProcOf(c) IN
    /\ running = NoTask
    /\ pc[c] = "idle"
    /\ Arrived(after)
    /\ boot[p] = "ready"
    /\ sock' = [sock EXCEPT ![c] = "open"]
    /\ active_websockets' = [active_websockets EXCEPT
           ![p] = Put(@, RoomOf(c), Append(Registered(p, RoomOf(c)), c))]
    /\ sending' = [sending EXCEPT ![c] = SystemFrame(c)]
    /\ pc' = [pc EXCEPT ![c] = "welcome"]
    /\ UNCHANGED <<cfgVars, lsnVars, recVars, storeVars, mgrVars, mirrorVars, cb_log, applied, cont, ret,
                   running, call, ops, boot, now, chatVars, inbox, target, it, stay, frames>>

\* mutant: the captions frame is sent before the history frame
NextGreeting_CaptionsFirst(c, stage) ==
    LET p == ProcOf(c)
        messages == GetRoomMessages(room_messages[p], RoomOf(c), HistoryLimit, NoId)
        caps == Lookup(captions[p], RoomOf(c))
    IN IF stage = "welcome" /\ caps # EmptyDict
       THEN [pc |-> "captions", frame |-> CaptionsFrame(c, caps)]
       ELSE IF stage \in {"welcome", "captions"} /\ messages # <<>>
       THEN [pc |-> "history", frame |-> HistoryFrame(c, messages)]
       ELSE [pc |-> "recv", frame |-> NoFrame]

\* lines 262-283: after a greeting frame went out, the next await: the history frame
\* when the room has messages, the captions frame when it has captions, else receive_text
NextGreeting(c, stage) ==
    LET p == ProcOf(c)
        messages == GetRoomMessages(room_messages[p], RoomOf(c), HistoryLimit, NoId)
        caps == Lookup(captions[p], RoomOf(c))
    IN IF stage = "welcome" /\ messages # <<>>
       THEN [pc |-> "history", frame |-> HistoryFrame(c, messages)]
       ELSE IF stage \in {"welcome", "history"} /\ caps # EmptyDict
       THEN [pc |-> "captions", frame |-> CaptionsFrame(c, caps)]
       ELSE [pc |-> "recv", frame |-> NoFrame]

\* one awaited send of a greeting frame to the connection's own socket completes
Greet(c, stage, o) ==
    /\ running = NoTask
    /\ pc[c] = stage
    /\ o \in Outcomes(c)
    /\ IF o \in {"sent", "dropped"}
       THEN /\ inbox' = [inbox EXCEPT ![c] = IF o = "sent" THEN Append(@, sending[c]) ELSE @]
            /\ pc' = [pc EXCEPT ![c] = NextGreeting(c, stage).pc]
            /\ sending' = [sending EXCEPT ![c] = NextGreeting(c, stage).frame]
            /\ UNCHANGED <<cont, running, active_websockets, stay, target, it>>
       ELSE /\ Terminate(c, o = "disconnect")
            /\ UNCHANGED inbox
    /\ UNCHANGED <<cfgVars, lsnVars, recVars, storeVars, mgrVars, mirrorVars, cb_log, applied, ret, call,
                   ops, boot, now, chatVars, sock, frames>>

\* lines 256-259
WsSendWelcome(c, o) ==
    /\ sending[c].type = "system"
    /\ Greet(c, "welcome", o)

\* lines 265-269
WsSendHistory(c, o) ==
    /\ sending[c].type = "history"
    /\ Greet(c, "history", o)

\* lines 275-279
WsSendCaptions(c, o) ==
    /\ sending[c].type = "captions"
    /\ Greet(c, "captions", o)

\* mutant: the broadcast loop without the `ws != websocket` test
NextTarget_NoExclusion(list, i, c) == IF i + 1 <= Len(list) THEN i + 1 ELSE 0

\* lines 303-304: the list iterator at index i moves to the next element that is not
\* the sender's own connection; 0 when the list is exhausted
NextTarget(list, i, c) ==
    LET later == {j \in (i + 1)..Len(list) : list[j] # c}
    IN IF later = {} THEN 0 ELSE CHOOSE j \in later : \A k \in later : j <= k

\* the loop runs on from iterator index i, over the list as it is now, to its next
\* awaited send; when the list is exhausted the handler is back at receive_text
BroadcastFrom(c, i, frame) ==
    LET list == Registered(ProcOf(c), RoomOf(c))
        j == NextTarget(list, i, c)
    IN IF j = 0
       THEN /\ Suspend(c, "recv", <<>>)
            /\ target' = [target EXCEPT ![c] = NoTask]
            /\ it' = [it EXCEPT ![c] = 0]
            /\ sending' = [sending EXCEPT ![c] = NoFrame]
       ELSE /\ Suspend(c, "bcast", <<>>)
            /\ target' = [target EXCEPT ![c] = list[j]]
            /\ it' = [it EXCEPT ![c] = j]
            /\ sending' = [sending EXCEPT ![c] = frame]

\* lines 283-300: receive_text delivers a frame of type "text"; trimmed content that is
\* not empty goes to send_message, the broadcast follows when send_message returns
WsReceiveText(c, content) ==
    /\ running = NoTask
    /\ pc[c] = "recv"
    /\ sock[c] = "open"
    /\ frames < MaxFrames
    /\ frames' = frames + 1
    /\ IF Strip(content) # <<>>
       THEN /\ SendMessageBegin(c, RoomOf(c), UserOf(c), Strip(content), "text",
                                <<"ws_bcast_msg">>)
            /\ UNCHANGED <<captions, caption_of>>
       ELSE UNCHANGED <<ctlVars, mirrorVars, call, chatVars>>
    /\ UNCHANGED <<cfgVars, lsnVars, recVars, storeVars, mgrVars, cb_log, applied, ops, boot, now,
                   active_websockets, sock, inbox, target, it, stay, sending>>

\* lines 310-323: a frame of type "caption" goes to update_caption
WsReceiveCaption(c, text, is_final) ==
    /\ running = NoTask
    /\ pc[c] = "recv"
    /\ sock[c] = "open"
    /\ frames < MaxFrames
    /\ frames' = frames + 1
    /\ UpdateCaptionBegin(c, RoomOf(c), UserOf(c), text, is_final, "zh-CN",
                          <<"ws_bcast_cap">>)
    /\ UNCHANGED <<cfgVars, lsnVars, recVars, storeVars, mgrVars, cb_log, applied, ops, boot, now,
                   active_websockets, sock, inbox, target, it, stay, sending>>

\* the peers of c that are registered with an open socket and a live handler
OpenPeers(c) ==
    LET list == Registered(ProcOf(c), RoomOf(c))
    IN {b \in Conns \ {c} : Contains(list, b) /\ sock[b] = "open" /\ pc[b] # "terminated"}

\* lines 302-308: send_message returned; the loop starts and runs to its first send
WsBroadcastMessage(c) ==
    /\ running = c
    /\ pc[c] = "ws_bcast_msg"
    /\ stay' = [stay EXCEPT ![c] = OpenPeers(c)]
    /\ BroadcastFrom(c, 0, MessageFrame(c, message_of[c]))
    /\ UNCHANGED <<cfgVars, lsnVars, recVars, storeVars, mgrVars, mirrorVars, cb_log, applied, ret, call,
                   ops, boot, now, chatVars, active_websockets, sock, inbox, frames>>

\* lines 325-332: update_caption returned; the loop starts and runs to its first send
WsBroadcastCaption(c) ==
    /\ running = c
    /\ pc[c] = "ws_bcast_cap"
    /\ BroadcastFrom(c, 0, CaptionFrame(c, caption_of[c]))
    /\ UNCHANGED <<cfgVars, lsnVars, recVars, storeVars, mgrVars, mirrorVars, cb_log, applied, ret, call,
                   ops, boot, now, chatVars, active_websockets, sock, inbox, stay, frames>>

\* lines 305-308 / 328-332 and 387-394: the awaited send inside the loop completes and the
\* loop runs on; a send that raises leaves the loop through `except Exception`, which
\* logs and goes back to receive_text
WsBroadcastSend(c, o) ==
    /\ running = NoTask
    /\ pc[c] = "bcast"
    /\ o \in Outcomes(target[c])
    /\ IF o \in {"sent", "dropped"}
       THEN /\ inbox' = [inbox EXCEPT
                   ![target[c]] = IF o = "sent" THEN Append(@, sending[c]) ELSE @]
            /\ BroadcastFrom(c, it[c], sending[c])
       ELSE /\ Suspend(c, "recv", <<>>)
            /\ target' = [target EXCEPT ![c] = NoTask]
            /\ it' = [it EXCEPT ![c] = 0]
            /\ sending' = [sending EXCEPT ![c] = NoFrame]
            /\ UNCHANGED inbox
    /\ UNCHANGED <<cfgVars, lsnVars, recVars, storeVars, mgrVars, mirrorVars, cb_log, applied, ret, call,
                   ops, boot, now, chatVars, active_websockets, sock, stay, frames>>

\* lines 283 and 396-409: receive_text raises WebSocketDisconnect once the client is gone
WsDisconnect(c) ==
    /\ running = NoTask
    /\ pc[c] = "recv"
    /\ sock[c] = "closed"
    /\ Terminate(c, TRUE)
    /\ UNCHANGED <<cfgVars, lsnVars, recVars, storeVars, mgrVars, mirrorVars, cb_log, applied, ret, call,
                   ops, boot, now, chatVars, sock, inbox, frames>>

\* line 283: receive_text on a binary frame.  The server stack either hands over a frame
\* record without a "text" entry, and the KeyError leaves the handler through no
\* `except` clause, or hands over None, and json.loads fails inside the inner `try`
WsReceiveBinary(c) ==
    /\ running = NoTask
    /\ pc[c] = "recv"
    /\ sock[c] = "open"
    /\ frames < MaxFrames
    /\ frames' = frames + 1
    /\ \/ Terminate(c, FALSE)
       \/ UNCHANGED <<pc, cont, running, active_websockets, stay, target, it, sending>>
    /\ UNCHANGED <<cfgVars, lsnVars, recVars, storeVars, mgrVars, mirrorVars, cb_log, applied, ret, call,
                   ops, boot, now, chatVars, sock, inbox>>

\* lines 283-288 and 378-394: receive_text delivers a text frame that json.loads
\* rejects, or a JSON text whose handling raises before any await (a value that is no
\* object has no get): the `except` clauses of the inner try log, the loop goes on
WsReceiveInvalid(c) ==
    /\ running = NoTask
    /\ pc[c] = "recv"
    /\ sock[c] = "open"
    /\ frames < MaxFrames
    /\ frames' = frames + 1
    /\ UNCHANGED <<cfgVars, lsnVars, recVars, storeVars, mgrVars, mirrorVars, cb_log, applied, ctlVars,
                   call, ops, boot, now, chatVars, active_websockets, sock, inbox, target, it,
                   stay, sending>>

\* a frame of type "command" arrives at the handler of c
Command(c) ==
    /\ running = NoTask
    /\ pc[c] = "recv"
    /\ sock[c] = "open"
    /\ ops < MaxOps
    /\ ops' = ops + 1

\* the handler of c has the result of a recording command and awaits the send of the
\* status frame on its own socket
AwaitStatus(c, result) ==
    /\ active_recordings' = [active_recordings EXCEPT ![ProcOf(c)] = result.reg]
    /\ replies' = [replies EXCEPT ![c] = result.reply]
    /\ sending' = [sending EXCEPT ![c] = StatusFrame(c, result.reply)]
    /\ pc' = [pc EXCEPT ![c] = "status"]
    /\ UNCHANGED <<cfgVars, lsnVars, RECORDING_ENABLED, active_calls, storeVars, mgrVars,
                   mirrorVars, cb_log, applied, cont, ret, running, call, boot, now, chatVars,
                   active_websockets, sock, inbox, target, it, stay, frames>>

\* lines 338-345: the command clear_captions goes to update_caption with an empty text
WsCommandClear(c) ==
    /\ Command(c)
    /\ UpdateCaptionBegin(c, RoomOf(c), UserOf(c), <<>>, TRUE, "zh-CN", <<"ws_cmd_done">>)
    /\ UNCHANGED <<cfgVars, lsnVars, recVars, storeVars, mgrVars, cb_log, applied, boot, now,
                   active_websockets, sock, inbox, target, it, stay, sending, frames>>

\* lines 338-345 and 283: update_caption returned, nothing follows in the branch
WsCommandDone(c) ==
    /\ running = c
    /\ pc[c] = "ws_cmd_done"
    /\ Suspend(c, "recv", <<>>)
    /\ UNCHANGED <<cfgVars, lsnVars, recVars, storeVars, mgrVars, mirrorVars, cb_log, applied, ret,
                   call, ops, boot, now, chatVars, gwVars>>

\* lines 347-361: the command start_recording while recording is enabled
WsCommandStart(c, o) ==
    /\ Command(c)
    /\ RECORDING_ENABLED
    /\ AwaitStatus(c, StartRecording(active_recordings[ProcOf(c)], RECORDING_ENABLED,
                                     RoomOf(c), o))

\* lines 363-376: the command stop_recording, with a recording_id, while recording is
\* enabled
WsCommandStop(c, recording_id, o) ==
    /\ Command(c)
    /\ RECORDING_ENABLED
    /\ recording_id # <<>>
    /\ AwaitStatus(c, StopRecording(active_recordings[ProcOf(c)], RECORDING_ENABLED,
                                    recording_id, o))

\* lines 336-376: a recording command while recording is disabled, a stop_recording
\* without recording_id, or a command the endpoint does not know: no branch is taken
WsCommandIgnored(c, command, recording_id) ==
    /\ Command(c)
    /\ \/ command \in {"start_recording", "stop_recording"} /\ ~RECORDING_ENABLED
       \/ command = "stop_recording" /\ recording_id = <<>>
       \/ command \notin {"clear_captions", "start_recording", "stop_recording"}
    /\ UNCHANGED <<cfgVars, lsnVars, recVars, storeVars, mgrVars, mirrorVars, cb_log, applied,
                   ctlVars, call, boot, now, chatVars, gwVars>>

\* mutant: the status frame goes to every connection registered in the room
WsSendStatus_Broadcast(c, o) ==
    /\ running = NoTask
    /\ pc[c] = "status"
    /\ o \in Outcomes(c)
    /\ inbox' = [b \in Conns |->
                    IF o = "sent" /\ Contains(Registered(ProcOf(c), RoomOf(c)), b)
                    THEN Append(inbox[b], sending[c]) ELSE inbox[b]]
    /\ Suspend(c, "recv", <<>>)
    /\ sending' = [sending EXCEPT ![c] = NoFrame]
    /\ UNCHANGED <<cfgVars, lsnVars, recVars, storeVars, mgrVars, mirrorVars, cb_log, applied, ret,
                   call, ops, boot, now, chatVars, active_websockets, sock, target, it, stay,
                   frames>>

\* lines 356-361 / 371-376 and 387-394: the awaited send of the status frame on the
\* socket of c completes; a send that raises is logged by `except Exception`; either
\* way the handler is back at receive_text
WsSendStatus(c, o) ==
    /\ running = NoTask
    /\ pc[c] = "status"
    /\ o \in Outcomes(c)
    /\ inbox' = [inbox EXCEPT ![c] = IF o = "sent" THEN Append(@, sending[c]) ELSE @]
    /\ Suspend(c, "recv", <<>>)
    /\ sending' = [sending EXCEPT ![c] = NoFrame]
    /\ UNCHANGED <<cfgVars, lsnVars, recVars, storeVars, mgrVars, mirrorVars, cb_log, applied, ret,
                   call, ops, boot, now, chatVars, active_websockets, sock, target, it, stay,
                   frames>>

\* the handler task is cancelled at an await of the endpoint: CancelledError is not a
\* WebSocketDisconnect
WsCancel(c) ==
    /\ running = NoTask
    /\ pc[c] \in {"welcome", "history", "captions", "recv", "bcast", "status"}
    /\ failures < MaxFailures
    /\ failures' = failures + 1
    /\ sock' = [sock EXCEPT ![c] = "closed"]
    /\ Terminate(c, FALSE)
    /\ UNCHANGED <<cfgVars, lsnVars, recVars, redis, pubsub, published, mgrVars, mirrorVars, cb_log,
                   applied, ret, call, ops, boot, now, chatVars, inbox, frames>>

\* the client of c goes away
ClientClose(c) ==
    /\ running = NoTask
    /\ sock[c] = "open"
    /\ failures < MaxFailures
    /\ failures' = failures + 1
    /\ sock' = [sock EXCEPT ![c] = "closed"]
    /\ stay' = Leave(c)
    /\ UNCHANGED <<cfgVars, lsnVars, recVars, redis, pubsub, published, mgrVars, mirrorVars, cb_log, applied, ctlVars,
                   call, ops, boot, now, chatVars, active_websockets, inbox, target, it,
                   sending, frames>>

\* ------------------------------------------------------ clients of the cache
\* a client task calls set_state(key, value, namespace="default")
ApiSet(t, key, value) ==
    /\ running = NoTask
    /\ pc[t] \in {"idle", "returned"}
    /\ ops < MaxOps
    /\ ops' = ops + 1
    /\ SetStateLocal(t, NsDefault, key, value, <<>>)
    /\ UNCHANGED <<cfgVars, lsnVars, recVars, storeVars, mgrVars, cb_log, applied, boot, now, chatVars,
                   gwVars>>

\* a client task calls get_state(key, namespace="default")
ApiGet(t, key) ==
    /\ running = NoTask
    /\ pc[t] \in {"idle", "returned"}
    /\ ops < MaxOps
    /\ ops' = ops + 1
    /\ GetStateLocal(t, NsDefault, key)
    /\ UNCHANGED <<cfgVars, lsnVars, recVars, storeVars, mgrVars, mirrorVars, cb_log, applied, boot, now,
                   chatVars, gwVars>>

\* a client task calls delete_state(key, namespace="default")
ApiDelete(t, key) ==
    /\ running = NoTask
    /\ pc[t] \in {"idle", "returned"}
    /\ ops < MaxOps
    /\ ops' = ops + 1
    /\ DeleteStateLocal(t, NsDefault, key, <<>>)
    /\ UNCHANGED <<cfgVars, lsnVars, recVars, storeVars, mgrVars, cb_log, applied, boot, now, chatVars,
                   gwVars>>

\* a client task calls get_all_states(namespace="default")
ApiGetAll(t) ==
    /\ running = NoTask
    /\ pc[t] \in {"idle", "returned"}
    /\ ops < MaxOps
    /\ ops' = ops + 1
    /\ GetAllLocal(t, NsDefault)
    /\ UNCHANGED <<cfgVars, lsnVars, recVars, storeVars, mgrVars, mirrorVars, cb_log, applied, boot, now,
                   chatVars, gwVars>>

\* a client program starts: connect(), then subscribe() for each of its callbacks
ClientConnect(p) ==
    /\ boot[p] = "off"
    /\ Connect(p)
    /\ boot' = [boot EXCEPT ![p] = IF REDIS_ENABLED THEN "connected" ELSE "ready"]

\* the callbacks a client program registers, in order
ClientCallbacks(p) == IF p = "P1" THEN <<"cbA">> ELSE <<"cbA", "cbB">>

ClientSubscribe(p) ==
    /\ boot[p] = "connected"
    /\ Len(SubscriberList(p, NsDefault)) < Len(ClientCallbacks(p))
    /\ Subscribe(p, NsDefault, ClientCallbacks(p)[Len(SubscriberList(p, NsDefault)) + 1])
    /\ boot' = [boot EXCEPT ![p] =
           IF Len(SubscriberList(p, NsDefault)) + 1 = Len(ClientCallbacks(p))
           THEN "ready" ELSE "connected"]

CacheTasks == {"t1", "t2"}

\* the program after construction
InitProgram ==
    /\ InitCacheVars
    /\ InitTaskVars
    /\ InitChatVars
    /\ InitGatewayVars
    /\ InitListenerVars
    /\ InitControlVars

\* replication enabled or not, the store reachable
InitCache ==
    /\ REDIS_ENABLED \in BOOLEAN
    /\ reachable = TRUE
    /\ InitProgram

\* replication enabled or not, the store reachable or not
InitOutage ==
    /\ REDIS_ENABLED \in BOOLEAN
    /\ reachable \in BOOLEAN
    /\ InitProgram

NextCache ==
    \/ \E p \in Procs : ClientConnect(p)
    \/ \E p \in Procs : ClientSubscribe(p)
    \/ \E t \in CacheTasks, k \in Keys, v \in Values : ApiSet(t, k, v)
    \/ \E t \in CacheTasks, k \in Keys : ApiGet(t, k)
    \/ \E t \in CacheTasks : SetStateStore(t)
    \/ \E t \in CacheTasks : SetStatePublish(t)
    \/ \E t \in CacheTasks : GetStateStore(t)
    \/ \E p \in Procs : HandlerStep(p)

\* two client processes using the cache directly
SpecCache == InitCache /\ [][NextCache]_vars

\* t1 writes through process P1, t2 reads through process P2, which listens
NextFetch ==
    \/ \E p \in Procs : ClientConnect(p)
    \/ ClientSubscribe("P2")
    \/ \E k \in Keys, v \in Values : ApiSet("t1", k, v)
    \/ \E t \in CacheTasks, k \in Keys : ApiGet(t, k)
    \/ SetStateStore("t1")
    \/ SetStatePublish("t1")
    \/ \E t \in CacheTasks : GetStateStore(t)
    \/ HandlerStep("P2")

SpecFetch == InitCache /\ [][NextFetch]_vars

\* propagation alone: clients that only write, under an event loop that keeps
\* scheduling the listener task of P2
NextPropagation ==
    \/ \E p \in Procs : ClientConnect(p)
    \/ \E p \in Procs : ClientSubscribe(p)
    \/ \E t \in CacheTasks, k \in Keys, v \in Values : ops < MaxSets /\ ApiSet(t, k, v)
    \/ \E t \in CacheTasks : SetStateStore(t)
    \/ \E t \in CacheTasks : SetStatePublish(t)
    \/ \E p \in Procs : HandlerStep(p)

FairCache == InitCache /\ [][NextPropagation]_vars /\ WF_vars(HandlerStep("P2"))

\* ----------------------------------------------- clients of the messaging layer
\* a request task of a started application calls send_message
ChatSend(t, content) ==
    /\ running = NoTask
    /\ pc[t] \in {"idle", "returned"}
    /\ boot[ProcOf(t)] = "ready"
    /\ ops < MaxCalls
    /\ ops' = ops + 1
    /\ SendMessageBegin(t, RoomOf(t), UserOf(t), content, "text", <<>>)
    /\ UNCHANGED <<cfgVars, lsnVars, recVars, storeVars, mgrVars, cb_log, applied, boot, now, captions,
                   caption_of, gwVars>>

\* main.py lines 614-629: the REST operation for the room of t; blank content is
\* refused with status 400, anything else goes to send_message untrimmed
RestSendMessage(t, content) ==
    /\ running = NoTask
    /\ pc[t] \in {"idle", "returned"}
    /\ boot[ProcOf(t)] = "ready"
    /\ ops < MaxCalls
    /\ ops' = ops + 1
    /\ replies' = [replies EXCEPT ![t] = NoReply]
    /\ IF Strip(content) = <<>>
       THEN /\ pc' = [pc EXCEPT ![t] = "returned"]
            /\ UNCHANGED <<cont, ret, running, mirrorVars, call, room_messages,
                           message_counter, message_of>>
       ELSE SendMessageBegin(t, RoomOf(t), UserOf(t), content, "text", <<"rest_bcast">>)
    /\ UNCHANGED <<cfgVars, lsnVars, RECORDING_ENABLED, active_recordings, active_calls, storeVars,
                   mgrVars, cb_log, applied, boot, now, captions, caption_of, gwVars>>

\* main.py lines 632-636: the list iterator at index i moves on; 0 when exhausted
NextElement(list, i) == IF i + 1 <= Len(list) THEN i + 1 ELSE 0

\* the loop of the REST operation runs on from iterator index i, over the list as it
\* is now, to its next awaited send; when the list is exhausted the operation returns
\* the message (line 641)
RestBroadcastFrom(t, i, frame) ==
    LET list == Registered(ProcOf(t), RoomOf(t))
        j == NextElement(list, i)
    IN IF j = 0
       THEN /\ Resume(t, <<>>)
            /\ replies' = [replies EXCEPT ![t] = Reply(TRUE, "sent", frame.message.id)]
            /\ target' = [target EXCEPT ![t] = NoTask]
            /\ it' = [it EXCEPT ![t] = 0]
            /\ sending' = [sending EXCEPT ![t] = NoFrame]
       ELSE /\ Suspend(t, "rest_send", <<>>)
            /\ target' = [target EXCEPT ![t] = list[j]]
            /\ it' = [it EXCEPT ![t] = j]
            /\ sending' = [sending EXCEPT ![t] = frame]
            /\ UNCHANGED replies

\* main.py lines 631-636: send_message returned; the loop starts and runs to its first
\* send
RestBroadcast(t) ==
    /\ running = t
    /\ pc[t] = "rest_bcast"
    /\ stay' = [stay EXCEPT ![t] = OpenPeers(t)]
    /\ RestBroadcastFrom(t, 0, MessageFrame(t, message_of[t]))
    /\ UNCHANGED <<cfgVars, lsnVars, RECORDING_ENABLED, active_recordings, active_calls, storeVars,
                   mgrVars, mirrorVars, cb_log, applied, ret, call, ops, boot, now, chatVars,
                   active_websockets, sock, inbox, frames>>

\* main.py lines 632-636: the awaited send inside the loop completes and the loop runs
\* on; nothing catches a send that raises, the exception ends the operation
RestBroadcastSend(t, o) ==
    /\ running = NoTask
    /\ pc[t] = "rest_send"
    /\ o \in Outcomes(target[t])
    /\ IF o \in {"sent", "dropped"}
       THEN /\ inbox' = [inbox EXCEPT
                   ![target[t]] = IF o = "sent" THEN Append(@, sending[t]) ELSE @]
            /\ RestBroadcastFrom(t, it[t], sending[t])
       ELSE /\ Resume(t, <<>>)
            /\ replies' = [replies EXCEPT ![t] = [NoReply EXCEPT !.raised = TRUE]]
            /\ target' = [target EXCEPT ![t] = NoTask]
            /\ it' = [it EXCEPT ![t] = 0]
            /\ sending' = [sending EXCEPT ![t] = NoFrame]
            /\ UNCHANGED inbox
    /\ UNCHANGED <<cfgVars, lsnVars, RECORDING_ENABLED, active_recordings, active_calls, storeVars,
                   mgrVars, mirrorVars, cb_log, applied, ret, call, ops, boot, now, chatVars,
                   active_websockets, sock, stay, frames>>

\* text_chat.py lines 353-365: clear_room_messages empties the room's list when the room
\* has one, then, with replication enabled, awaits delete_state for the room
ClearRoomMessages(t, room_name) ==
    LET p == ProcOf(t) IN
    /\ room_messages' = [room_messages EXCEPT
           ![p] = IF Has(@, room_name) THEN Put(@, room_name, <<>>) ELSE @]
    /\ IF REDIS_ENABLED
       THEN DeleteStateLocal(t, NsChat, <<room_name>>, <<>>)
       ELSE /\ call' = [call EXCEPT ![t] = [op |-> "clear", ns |-> NsChat,
                                            key |-> <<room_name>>, value |-> None]]
            /\ Resume(t, <<>>)
            /\ UNCHANGED <<local_state, own_write, ret>>

\* a request task of a started application calls clear_room_messages
ChatClear(t) ==
    /\ running = NoTask
    /\ pc[t] \in {"idle", "returned"}
    /\ boot[ProcOf(t)] = "ready"
    /\ ops < MaxCalls
    /\ ops' = ops + 1
    /\ ClearRoomMessages(t, RoomOf(t))
    /\ UNCHANGED <<cfgVars, lsnVars, recVars, storeVars, mgrVars, cb_log, applied, boot, now,
                   captions, message_counter, message_of, caption_of, gwVars>>

\* a request task of a started application calls update_caption
ChatCaption(t, text, is_final) ==
    /\ running = NoTask
    /\ pc[t] \in {"idle", "returned"}
    /\ boot[ProcOf(t)] = "ready"
    /\ ops < MaxCalls
    /\ ops' = ops + 1
    /\ UpdateCaptionBegin(t, RoomOf(t), UserOf(t), text, is_final, "zh-CN", <<>>)
    /\ UNCHANGED <<cfgVars, lsnVars, recVars, storeVars, mgrVars, cb_log, applied, boot, now, gwVars>>

ChatTasks == {"t1", "t3"}

\* one application process, replication enabled or not, serving two request tasks
NextChat ==
    \/ StartupEvent("P1")
    \/ InitializeConnect("P1")
    \/ InitializeSubscribeMessages("P1")
    \/ InitializeSubscribeCaptions("P1")
    \/ \E t \in ChatTasks, x \in Texts : ChatSend(t, x)
    \/ \E t \in ChatTasks, x \in Texts, f \in BOOLEAN : ChatCaption(t, x, f)
    \/ \E t \in ChatTasks : SendMessageReturn(t)
    \/ \E t \in ChatTasks : UpdateCaptionSync(t)
    \/ \E t \in ChatTasks : UpdateCaptionReturn(t)
    \/ \E t \in ChatTasks : SetStateStore(t)
    \/ \E t \in ChatTasks : SetStatePublish(t)
    \/ HandlerStep("P1")
    \/ Tick

SpecChat == InitCache /\ [][NextChat]_vars

\* ------------------------------------------------ listeners of the messaging layer
\* replication enabled or not, the store reachable or not, and no transient fault
InitListen ==
    /\ REDIS_ENABLED \in BOOLEAN
    /\ reachable \in BOOLEAN
    /\ redis = EmptyDict
    /\ pubsub = [p \in Procs |-> [channels |-> {}, buffer |-> <<>>]]
    /\ is_connected = [p \in Procs |-> FALSE]
    /\ subscribers = [p \in Procs |-> EmptyDict]
    /\ local_state = [p \in Procs |-> EmptyDict]
    /\ handlers = [p \in Procs |-> 0]
    /\ cb_log = [p \in Procs |-> [c \in Callbacks |-> <<>>]]
    /\ failures = MaxFailures
    /\ published = 0
    /\ applied = [p \in Procs |-> 0]
    /\ last_ret = [p \in Procs |-> Returned("none", FALSE)]
    /\ InitTaskVars
    /\ InitChatVars
    /\ InitGatewayVars
    /\ InitListenerVars
    /\ InitControlVars

\* a client of the messaging layer registers its listeners for room r before the
\* first message is sent
ListenAddMessage(l) ==
    /\ ops = 0
    /\ AddMessageListener("P1", "r", l)

ListenAddCaption(l) ==
    /\ ops = 0
    /\ AddCaptionListener("P1", "r", l)

\* a client of the cache subscribes a callback of its own to the namespace of the
\* messages, once, before the first message is sent
ListenSubscribe(cb) ==
    /\ ops = 0
    /\ boot["P1"] = "ready"
    /\ REDIS_ENABLED
    /\ ~Contains(ListOf(subscribers["P1"], NsChat), cb)
    /\ Subscribe("P1", NsChat, cb)
    /\ UNCHANGED boot

ListenStops == 0..Len(ListenerOrder)

\* one application process with listeners, serving two request tasks
NextListen ==
    \/ StartupEvent("P1")
    \/ InitializeConnect("P1")
    \/ InitializeSubscribeMessages("P1")
    \/ InitializeSubscribeCaptions("P1")
    \/ \E l \in Listeners : ListenAddMessage(l)
    \/ \E l \in Listeners : ListenAddCaption(l)
    \/ \E cb \in Callbacks : ListenSubscribe(cb)
    \/ \E t \in ChatTasks : ChatSend(t, <<"x">>)
    \/ \E t \in ChatTasks : ChatCaption(t, <<"x">>, FALSE)
    \/ \E t \in ChatTasks : SendMessageReturn(t)
    \/ \E t \in ChatTasks : UpdateCaptionSync(t)
    \/ \E t \in ChatTasks : UpdateCaptionReturn(t)
    \/ \E t \in ChatTasks : SetStateStore(t)
    \/ \E t \in ChatTasks : SetStatePublish(t)
    \/ \E t \in ChatTasks, stop \in ListenStops : NotifyMessageListeners(t, stop)
    \/ \E t \in ChatTasks, stop \in ListenStops : MessageListenerReturn(t, stop)
    \/ \E t \in ChatTasks, stop \in ListenStops : NotifyCaptionListeners(t, stop)
    \/ \E t \in ChatTasks, stop \in ListenStops : CaptionListenerReturn(t, stop)
    \/ HandlerStep("P1")
    \/ \E stop \in ListenStops : HandlerListen("P1", stop)
    \/ \E i \in 1..MaxTasks, stop \in ListenStops : HandlerResume("P1", i, stop)

SpecListen == InitListen /\ [][NextListen]_vars

\* replication enabled, the store reachable, no fault
InitEvents == InitListen /\ REDIS_ENABLED /\ reachable

\* one application process: a client subscribes callbacks of its own to the namespace
\* of the messages and registers a listener that can suspend; a request task sends
\* messages to room r and clears the room
NextEvents ==
    \/ StartupEvent("P1")
    \/ InitializeConnect("P1")
    \/ InitializeSubscribeMessages("P1")
    \/ InitializeSubscribeCaptions("P1")
    \/ ListenAddMessage("lB")
    \/ \E cb \in Callbacks : ListenSubscribe(cb)
    \/ ChatSend("t1", <<"x">>)
    \/ ChatClear("t1")
    \/ SendMessageReturn("t1")
    \/ SetStateStore("t1")
    \/ SetStatePublish("t1")
    \/ DeleteStateStore("t1")
    \/ DeleteStatePublish("t1")
    \/ HandlerStep("P1")
    \/ HandlerListen("P1", 1)
    \/ \E i \in 1..MaxTasks : HandlerResume("P1", i, 0)

SpecEvents == InitEvents /\ [][NextEvents]_vars

\* two application processes sharing the store, replication enabled: a request task of
\* P1 sends a message to room r and clears the room, a request task of P2 sends to the
\* same room, and each process's listener consumes the events
NextClear ==
    \/ \E p \in Procs : StartupEvent(p)
    \/ \E p \in Procs : InitializeConnect(p)
    \/ \E p \in Procs : InitializeSubscribeMessages(p)
    \/ \E p \in Procs : InitializeSubscribeCaptions(p)
    \/ \E t \in {"t1", "t2"} : ChatSend(t, <<"x">>)
    \/ ChatClear("t1")
    \/ \E t \in {"t1", "t2"} : SendMessageReturn(t)
    \/ \E t \in {"t1", "t2"} : SetStateStore(t)
    \/ \E t \in {"t1", "t2"} : SetStatePublish(t)
    \/ DeleteStateStore("t1")
    \/ DeleteStatePublish("t1")
    \/ \E p \in Procs : HandlerStep(p)

SpecClear == InitEvents /\ [][NextClear]_vars

\* one application process from startup to shutdown, replication enabled: a request
\* task sends messages, a listener that can suspend is registered, and the listener
\* tasks consume the events until the manager is disconnected
NextDown ==
    \/ StartupEvent("P1")
    \/ InitializeConnect("P1")
    \/ InitializeSubscribeMessages("P1")
    \/ InitializeSubscribeCaptions("P1")
    \/ ShutdownEvent("P1")
    \/ ListenAddMessage("lB")
    \/ ChatSend("t1", <<"x">>)
    \/ SendMessageReturn("t1")
    \/ SetStateStore("t1")
    \/ SetStatePublish("t1")
    \/ HandlerStep("P1")
    \/ HandlerListen("P1", 1)
    \/ \E i \in 1..MaxTasks : HandlerResume("P1", i, 0)
    \/ HandlerExit("P1")

SpecDown == InitEvents /\ [][NextDown]_vars

\* the event loop keeps scheduling the listener tasks and the request task's
\* continuation, and a listener that was awaited returns
FairDown ==
    /\ SpecDown
    /\ WF_vars(HandlerExit("P1"))
    /\ WF_vars(\E i \in 1..MaxTasks : HandlerResume("P1", i, 0))
    /\ WF_vars(SendMessageReturn("t1"))

\* ------------------------------------------------------- gateway processes
GatewayTexts == {<<" ">>, <<"x", " ">>}
\* caption frames: an interim caption without text, a final caption with text
CaptionInputs == {[text |-> <<>>, is_final |-> FALSE], [text |-> <<"x">>, is_final |-> TRUE]}

\* the steps of the application processes `procs` serving the connections `conns`, of
\* which the clients of `senders` send frames; a connection c arrives after the
\* connections earlier[c]
NextServing(procs, conns, senders, earlier) ==
    \/ \E p \in procs : StartupEvent(p)
    \/ \E p \in procs : InitializeConnect(p)
    \/ \E p \in procs : InitializeSubscribeMessages(p)
    \/ \E p \in procs : InitializeSubscribeCaptions(p)
    \/ \E p \in procs : HandlerStep(p)
    \/ \E c \in conns : WsOpen(c, earlier[c])
    \/ \E c \in conns, o \in {"sent", "dropped", "disconnect", "error"} : WsSendWelcome(c, o)
    \/ \E c \in conns, o \in {"sent", "dropped", "disconnect", "error"} : WsSendHistory(c, o)
    \/ \E c \in conns, o \in {"sent", "dropped", "disconnect", "error"} : WsSendCaptions(c, o)
    \/ \E c \in senders, x \in GatewayTexts : WsReceiveText(c, x)
    \/ \E c \in senders, x \in CaptionInputs : WsReceiveCaption(c, x.text, x.is_final)
    \/ \E c \in senders : WsReceiveBinary(c)
    \/ \E c \in senders : WsReceiveInvalid(c)
    \/ \E c \in senders : SetStateStore(c)
    \/ \E c \in senders : SetStatePublish(c)
    \/ \E c \in senders : SendMessageReturn(c)
    \/ \E c \in senders : UpdateCaptionSync(c)
    \/ \E c \in senders : UpdateCaptionReturn(c)
    \/ \E c \in senders : WsBroadcastMessage(c)
    \/ \E c \in senders : WsBroadcastCaption(c)
    \/ \E c \in senders, o \in {"sent", "dropped", "disconnect", "error"} : WsBroadcastSend(c, o)
    \/ \E c \in conns : WsDisconnect(c)
    \/ \E c \in conns : WsCancel(c)
    \/ \E c \in conns : ClientClose(c)

GatewayConns == {"c1", "c2", "c3"}

\* c1 is the connection whose client sends frames; c2 and c3 are its peers, and of
\* the two interchangeable peers c3 names the one whose handler starts later
GatewayOrder == [c \in GatewayConns |-> IF c = "c3" THEN {"c2"} ELSE {}]

NextGateway == NextServing({"P1"}, GatewayConns, {"c1"}, GatewayOrder)

\* one application process with three connections in one room
SpecGateway == InitCache /\ [][NextGateway]_vars

PairConns == {"c1", "c2"}

\* of the two interchangeable connections c2 names the one whose handler starts later
PairOrder == [c \in PairConns |-> IF c = "c2" THEN {"c1"} ELSE {}]

NextPair == NextServing({"P1"}, PairConns, PairConns, PairOrder)

\* one application process with two connections in one room, both clients sending
SpecPair == InitCache /\ [][NextPair]_vars

SystemConns == {"c1", "c2", "c4"}
SystemOrder == [c \in SystemConns |-> {}]

NextSystem == NextServing(Procs, SystemConns, {"c1"}, SystemOrder)

\* two application processes sharing the store, replication enabled: c1 is served by
\* P1 and sends frames, c2 is its peer on P1, c4 is served by P2
InitSystem == InitCache /\ REDIS_ENABLED = TRUE

SpecSystem == InitSystem /\ [][NextSystem]_vars

\* the event loops keep scheduling every task that can run
FairSystem ==
    /\ SpecSystem
    /\ \A p \in Procs : WF_vars(HandlerStep(p))
    /\ WF_vars(SetStateStore("c1"))
    /\ WF_vars(SetStatePublish("c1"))
    /\ WF_vars(SendMessageReturn("c1"))
    /\ WF_vars(WsBroadcastMessage("c1"))
    /\ WF_vars(\E o \in {"sent", "dropped", "disconnect", "error"} : WsBroadcastSend("c1", o))
    /\ WF_vars(\E o \in {"sent", "dropped", "disconnect", "error"} : WsSendWelcome("c4", o))
    /\ WF_vars(\E o \in {"sent", "dropped", "disconnect", "error"} : WsSendHistory("c4", o))
    /\ WF_vars(\E o \in {"sent", "dropped", "disconnect", "error"} : WsSendCaptions("c4", o))

RoomsConns == {"c1", "c2", "c5"}
RoomsOrder == [c \in RoomsConns |-> IF c = "c2" THEN {"c1"} ELSE {}]

\* replication left at its default, disabled
InitLocal ==
    /\ REDIS_ENABLED = FALSE
    /\ reachable = TRUE
    /\ InitProgram

\* the steps of a process without replication: nothing is stored, published or listened to
NextRooms ==
    \/ StartupEvent("P1")
    \/ InitializeConnect("P1")
    \/ \E c \in RoomsConns : WsOpen(c, RoomsOrder[c])
    \/ \E c \in RoomsConns, o \in {"sent", "dropped", "disconnect", "error"} : WsSendWelcome(c, o)
    \/ \E c \in RoomsConns, o \in {"sent", "dropped", "disconnect", "error"} : WsSendHistory(c, o)
    \/ \E c \in RoomsConns, o \in {"sent", "dropped", "disconnect", "error"} : WsSendCaptions(c, o)
    \/ \E x \in GatewayTexts : WsReceiveText("c1", x)
    \/ \E x \in CaptionInputs : WsReceiveCaption("c1", x.text, x.is_final)
    \/ WsReceiveBinary("c1")
    \/ SendMessageReturn("c1")
    \/ UpdateCaptionSync("c1")
    \/ UpdateCaptionReturn("c1")
    \/ WsBroadcastMessage("c1")
    \/ WsBroadcastCaption("c1")
    \/ \E o \in {"sent", "dropped", "disconnect", "error"} : WsBroadcastSend("c1", o)
    \/ \E c \in RoomsConns : WsDisconnect(c)
    \/ \E c \in RoomsConns : WsCancel(c)
    \/ \E c \in RoomsConns : ClientClose(c)

\* one application process without replication serving two rooms: c1 and its peer c2 in
\* room r, c5 alone in room s
SpecRooms == InitLocal /\ [][NextRooms]_vars

\* ------------------------------------------- clients managing subscriptions
SubsNamespaces == {NsDefault, NsChat}
SubsCallbacks == {"cbA", "cbB"}

\* a client calls connect(), whether or not the manager is connected already
SubsConnect(p) ==
    /\ Connect(p)
    /\ UNCHANGED boot

\* a client calls subscribe(ns, cb), whether or not cb is registered already
SubsSubscribe(p, ns, cb) ==
    /\ Len(SubscriberList(p, ns)) < MaxSubs
    /\ SubscriberList(p, ns) = <<>> => handlers[p] < MaxTasks
    /\ Subscribe(p, ns, cb)
    /\ UNCHANGED boot

\* a client calls unsubscribe(ns, cb)
SubsUnsubscribe(p, ns, cb) ==
    /\ Unsubscribe(p, ns, cb)
    /\ UNCHANGED boot

\* a task of the process writes to the default namespace
SubsSet(t, key, value) ==
    /\ ops < MaxSets
    /\ ApiSet(t, key, value)

\* one process whose client subscribes, unsubscribes and reconnects at will while a
\* task of the same process writes to the default namespace
NextSubs ==
    \/ SubsConnect("P1")
    \/ \E ns \in SubsNamespaces, cb \in SubsCallbacks : SubsSubscribe("P1", ns, cb)
    \/ \E ns \in SubsNamespaces, cb \in SubsCallbacks : SubsUnsubscribe("P1", ns, cb)
    \/ \E k \in Keys, v \in Values : SubsSet("t1", k, v)
    \/ SetStateStore("t1")
    \/ SetStatePublish("t1")
    \/ HandlerStep("P1")

SpecSubs == InitCache /\ [][NextSubs]_vars

\* ------------------------------- unsubscribing while an event is dispatched
IterCallbacks == {"cbA", "cbS", "cbB"}

\* a client registers a callback that is not registered yet, before the listener has
\* taken its first event
IterSubscribe(p, cb) ==
    /\ applied[p] = 0
    /\ \A i \in 1..Len(SubscriberList(p, NsDefault)) : SubscriberList(p, NsDefault)[i] # cb
    /\ Subscribe(p, NsDefault, cb)
    /\ UNCHANGED boot

\* a client unsubscribes a callback while the listener task is suspended inside a
\* callback
IterUnsubscribe(p, cb) ==
    /\ dispatching[p] # <<>>
    /\ Unsubscribe(p, NsDefault, cb)
    /\ UNCHANGED boot

\* one process: its client registers cbA, cbB and the awaiting cbS in any order, a task
\* writes to the default namespace, and while the listener task is suspended inside cbS
\* the client unsubscribes cbA or cbB
NextIterate ==
    \/ SubsConnect("P1")
    \/ \E cb \in IterCallbacks : IterSubscribe("P1", cb)
    \/ \E cb \in Callbacks : IterUnsubscribe("P1", cb)
    \/ \E k \in Keys, v \in Values : SubsSet("t1", k, v)
    \/ SetStateStore("t1")
    \/ SetStatePublish("t1")
    \/ HandlerStep("P1")
    \/ \E at \in 1..MaxLen : HandlerAwait("P1", at)
    \/ HandlerResume("P1", 1, 0)

SpecIterate == InitSystem /\ [][NextIterate]_vars

\* ------------------------------------------------- payloads of other publishers
\* texts another program can publish on a channel of the store: no JSON at all, and
\* JSON objects without type, without key or without value
MalformedPayloads ==
    {<<"garbage">>} \cup
    {JsonDumps([namespace |-> NsDefault, key |-> k, value |-> v]) : k \in Keys, v \in Values} \cup
    {JsonDumps([type |-> "state_update", namespace |-> NsDefault, value |-> v]) : v \in Values} \cup
    {JsonDumps([type |-> "state_update", namespace |-> NsDefault, key |-> k]) : k \in Keys} \cup
    {JsonDumps([type |-> "state_delete", namespace |-> NsDefault])}

\* and the events another process of the application publishes
ForeignPayloads ==
    MalformedPayloads \cup {UpdateMessage(NsDefault, k, v).data : k \in Keys, v \in Values}

\* state_sync.py line 242: the message get_message returns is whatever was published on
\* the channel, by this application or by anything else that reaches the store
ForeignPublish(ns, text) ==
    /\ running = NoTask
    /\ reachable
    /\ published < MaxSets
    /\ published' = published + 1
    /\ pubsub' = Deliver(ns, [channel |-> Channel(ns), data |-> text])
    /\ UNCHANGED <<cfgVars, lsnVars, recVars, redis, failures, mgrVars, mirrorVars, cb_log,
                   applied, ctlVars, call, ops, boot, now, chatVars, gwVars>>

\* a client process of the cache that only listens, and the publishers on its channel
NextPayload ==
    \/ ClientConnect("P2")
    \/ ClientSubscribe("P2")
    \/ \E text \in ForeignPayloads : ForeignPublish(NsDefault, text)
    \/ HandlerStep("P2")

SpecPayload == InitSystem /\ [][NextPayload]_vars

\* a client subscribes its callback when none is registered and no listener runs
OutageSubscribe(p) ==
    /\ SubscriberList(p, NsDefault) = <<>>
    /\ handlers[p] = 0
    /\ Subscribe(p, NsDefault, "cbA")
    /\ UNCHANGED boot

\* one process, the store reachable or not for the whole run: its client connects,
\* subscribes and unsubscribes a callback, and one task uses every cache operation
NextOutage ==
    \/ SubsConnect("P1")
    \/ OutageSubscribe("P1")
    \/ SubsUnsubscribe("P1", NsDefault, "cbA")
    \/ \E k \in Keys, v \in Values : ApiSet("t1", k, v)
    \/ \E k \in Keys : ApiGet("t1", k)
    \/ \E k \in Keys : ApiDelete("t1", k)
    \/ ApiGetAll("t1")
    \/ SetStateStore("t1")
    \/ SetStatePublish("t1")
    \/ GetStateStore("t1")
    \/ DeleteStateStore("t1")
    \/ DeleteStatePublish("t1")
    \/ GetAllKeys("t1")
    \/ GetAllValues("t1")
    \/ HandlerStep("P1")

SpecOutage == InitOutage /\ [][NextOutage]_vars

\* ------------------------------------------------- reading the message history
\* the ids of the messages of the room logs drawn as input
HistoryIds == {<<0, 1>>, <<0, 2>>, <<1, 1>>}
HistoryMessage(id) ==
    [id |-> id, room |-> "r", user_id |-> "c1", content |-> <<"x">>, type |-> "text",
     timestamp |-> id[1]]

\* the room logs of at most MaxLen messages; replicated messages can repeat an id
HistoryLogs ==
    UNION {[1..n -> {HistoryMessage(id) : id \in HistoryIds}] : n \in 0..MaxLen}

\* an application process whose log of room r is any of these logs, or that has no log
InitHistory ==
    /\ REDIS_ENABLED = FALSE
    /\ reachable = TRUE
    /\ InitCacheVars
    /\ InitTaskVars
    /\ InitGatewayVars
    /\ InitListenerVars
    /\ InitControlVars
    /\ now = 1
    /\ room_messages \in
          {[p \in Procs |-> IF p = "P1" /\ log # <<>> THEN Put(EmptyDict, "r", log)
                            ELSE EmptyDict] : log \in HistoryLogs}
    /\ captions = [p \in Procs |-> EmptyDict]
    /\ message_counter = [p \in Procs |-> 0]
    /\ message_of = [t \in Tasks |-> NoMessage]
    /\ caption_of = [t \in Tasks |-> NoCaption]

\* main.py lines 643-657: the request passes limit and before_id on as they came
GetMessagesApi(t, room_name, limit, before_id) ==
    /\ running = NoTask
    /\ pc[t] \in {"idle", "returned"}
    /\ call' = [call EXCEPT ![t] = [op |-> "get_room_messages", ns |-> room_name,
                                   key |-> before_id, value |-> [limit |-> limit]]]
    /\ ReturnVia(t, GetResult(GetRoomMessages(room_messages[ProcOf(t)], room_name, limit,
                                              before_id), FALSE), <<>>)
    /\ room_messages' = [room_messages EXCEPT
           ![ProcOf(t)] = StoredAfterGet(@, room_name, limit, before_id)]
    /\ UNCHANGED <<cfgVars, lsnVars, recVars, storeVars, mgrVars, mirrorVars, cb_log, applied, ops, boot, now,
                   captions, message_counter, message_of, caption_of, gwVars>>

NextHistory ==
    \E limit \in 0..MaxLimit, before_id \in HistoryIds \cup {NoId} :
        GetMessagesApi("t1", "r", limit, before_id)

SpecHistory == InitHistory /\ [][NextHistory]_vars

\* ----------------------------------------- clients of the controllers
\* the ids a client can name: those the controllers hand out, and one they never do
RecordingIds == {<<"rec", "r", 1>>, <<"rec", "r", 2>>, <<"rec", "s", 1>>, <<"rec", "s", 2>>,
                 <<"rec", "unknown", 0>>}
CallIds == {<<"call", 1>>, <<"call", 2>>, <<"call", 0>>}

\* recording enabled or not
InitControl ==
    /\ REDIS_ENABLED = FALSE
    /\ reachable = TRUE
    /\ RECORDING_ENABLED \in BOOLEAN
    /\ InitCacheVars
    /\ InitTaskVars
    /\ InitChatVars
    /\ InitGatewayVars
    /\ InitListenerVars
    /\ InitRegistries

\* a request task uses the recording controller and the call controller
NextControl ==
    \/ \E room \in {"r", "s"}, o \in RemoteOutcomes : CtlStartRecording("t1", room, o)
    \/ \E id \in RecordingIds, o \in RemoteOutcomes : CtlStopRecording("t1", id, o)
    \/ \E id \in RecordingIds, o \in RemoteOutcomes : CtlRecordingStatus("t1", id, o)
    \/ \E room \in {"r", "s"} : CtlIncomingCall("t1", room)
    \/ \E id \in CallIds, o \in RemoteOutcomes : CtlEndCall("t1", id, o)
    \/ \E id \in CallIds, o \in RemoteOutcomes : CtlCallStatus("t1", id, o)

SpecControl == InitControl /\ [][NextControl]_vars

\* --------------------------------------------- connections that send commands
\* c1 and c2 share room r, c5 is alone in room s
CommandConns == {"c1", "c2", "c5"}
\* the peers are there before the client of c1 connects
CommandOrder == [c \in CommandConns |-> IF c = "c1" THEN {"c2", "c5"}
                                        ELSE IF c = "c5" THEN {"c2"} ELSE {}]
Commands == {"clear_captions", "start_recording", "stop_recording", "mute"}
\* the recording of room r, and two ids the registry never holds
CommandIds == {<<"rec", "r", 1>>, <<"rec", "s", 1>>, <<"rec", "unknown", 0>>}

\* one application process without replication, recording enabled or not; the client
\* of c1 sends commands
NextCommands ==
    \/ StartupEvent("P1")
    \/ InitializeConnect("P1")
    \/ \E c \in CommandConns : WsOpen(c, CommandOrder[c])
    \/ \E c \in CommandConns, o \in {"sent", "dropped", "disconnect", "error"} : WsSendWelcome(c, o)
    \/ WsCommandClear("c1")
    \/ UpdateCaptionSync("c1")
    \/ UpdateCaptionReturn("c1")
    \/ WsCommandDone("c1")
    \/ \E o \in RemoteOutcomes : WsCommandStart("c1", o)
    \/ \E id \in CommandIds, o \in RemoteOutcomes : WsCommandStop("c1", id, o)
    \/ \E command \in Commands, id \in {<<>>, <<"rec", "r", 1>>} :
           WsCommandIgnored("c1", command, id)
    \/ \E o \in {"sent", "dropped", "disconnect", "error"} : WsSendStatus("c1", o)
    \/ \E c \in CommandConns : WsDisconnect(c)
    \/ \E c \in CommandConns : ClientClose(c)

SpecCommands == InitControl /\ [][NextCommands]_vars

\* ------------------------------------------------ requests and connections
\* c2 and c3 share room r, c5 is alone in room s
RestConns == {"c2", "c3", "c5"}
RestOrder == [c \in RestConns |-> IF c = "c3" THEN {"c2"} ELSE {}]

\* one application process, replication enabled or not, with three connections; the
\* request task t1 sends messages to room r through the REST operation
NextRest ==
    \/ StartupEvent("P1")
    \/ InitializeConnect("P1")
    \/ InitializeSubscribeMessages("P1")
    \/ InitializeSubscribeCaptions("P1")
    \/ HandlerStep("P1")
    \/ \E c \in RestConns : WsOpen(c, RestOrder[c])
    \/ \E c \in RestConns, o \in {"sent", "dropped", "disconnect", "error"} : WsSendWelcome(c, o)
    \/ \E x \in GatewayTexts : RestSendMessage("t1", x)
    \/ SetStateStore("t1")
    \/ SetStatePublish("t1")
    \/ SendMessageReturn("t1")
    \/ RestBroadcast("t1")
    \/ \E o \in {"sent", "dropped", "disconnect", "error"} : RestBroadcastSend("t1", o)
    \/ \E c \in RestConns : WsDisconnect(c)
    \/ \E c \in RestConns : WsCancel(c)
    \/ \E c \in RestConns : ClientClose(c)

SpecRest == InitCache /\ [][NextRest]_vars

\* ---------------------------------------------------- rooms with a past
\* the lengths of the room log a connection finds: none, one message, as many as the
\* greeting replays, and one more
WelcomeLengths == {0, 1, HistoryLimit, HistoryLimit + 1}

\* an earlier caption of another user of the room
WelcomeCaption == [text |-> <<"x">>, is_final |-> FALSE, language |-> "zh-CN", timestamp |-> 0]

\* an application process without replication whose room r has been in use: its log
\* holds the messages 1..n of user c1, and user c3 may have left a caption
InitWelcome ==
    /\ REDIS_ENABLED = FALSE
    /\ reachable = TRUE
    /\ InitCacheVars
    /\ InitTaskVars
    /\ InitGatewayVars
    /\ InitListenerVars
    /\ InitControlVars
    /\ now = 0
    /\ \E n \in WelcomeLengths :
          /\ room_messages =
                [p \in Procs |-> IF p = "P1" /\ n > 0
                                 THEN Put(EmptyDict, "r", [i \in 1..n |-> HistoryMessage(<<0, i>>)])
                                 ELSE EmptyDict]
          /\ message_counter = [p \in Procs |-> IF p = "P1" THEN n ELSE 0]
    /\ captions \in {[p \in Procs |-> EmptyDict],
                     [p \in Procs |-> IF p = "P1"
                                      THEN Put(EmptyDict, "r", Put(EmptyDict, "c3", WelcomeCaption))
                                      ELSE EmptyDict]}
    /\ message_of = [t \in Tasks |-> NoMessage]
    /\ caption_of = [t \in Tasks |-> NoCaption]

\* the process serves the connections c1, whose client sends frames, and c2
NextWelcome ==
    \/ StartupEvent("P1")
    \/ InitializeConnect("P1")
    \/ \E c \in PairConns : WsOpen(c, PairOrder[c])
    \/ \E c \in PairConns, o \in {"sent", "dropped", "disconnect", "error"} : WsSendWelcome(c, o)
    \/ \E c \in PairConns, o \in {"sent", "dropped", "disconnect", "error"} : WsSendHistory(c, o)
    \/ \E c \in PairConns, o \in {"sent", "dropped", "disconnect", "error"} : WsSendCaptions(c, o)
    \/ \E x \in GatewayTexts : WsReceiveText("c1", x)
    \/ \E x \in CaptionInputs : WsReceiveCaption("c1", x.text, x.is_final)
    \/ SendMessageReturn("c1")
    \/ UpdateCaptionSync("c1")
    \/ UpdateCaptionReturn("c1")
    \/ WsBroadcastMessage("c1")
    \/ WsBroadcastCaption("c1")
    \/ \E o \in {"sent", "dropped", "disconnect", "error"} : WsBroadcastSend("c1", o)
    \/ \E c \in PairConns : WsDisconnect(c)
    \/ \E c \in PairConns : ClientClose(c)

SpecWelcome == InitWelcome /\ [][NextWelcome]_vars

\* the same under an event loop that keeps scheduling the listener tasks; a listener
\* that polls an empty channel changes nothing and is a stuttering step
FairSubs == InitCache /\ [][NextSubs]_vars /\ WF_vars(HandlerStep("P1"))

\* ------------------------------------------------------------------ claims
Mirror(p, ns) == Lookup(local_state[p], ns)
Quiet == \A t \in Tasks : pc[t] \in {"idle", "returned"}

\* C1 (as claimed): two subscribed processes set the same key to different values;
\* once both calls have returned and both listeners have consumed every published
\* event, each mirror holds the value the store holds.
C1_MirrorsMatchStore ==
    \A k \in Keys :
        ( /\ failures = 0
          /\ Quiet
          /\ call["t1"].op = "set" /\ call["t2"].op = "set"
          /\ call["t1"].key = k /\ call["t2"].key = k
          /\ call["t1"].value # call["t2"].value
          /\ published >= 2
          /\ \A p \in Procs : pubsub[p].buffer = <<>> /\ applied[p] = published )
        => \A p \in Procs :
              /\ Has(Mirror(p, NsDefault), k)
              /\ Has(redis, FullKey(NsDefault, k))
              /\ Mirror(p, NsDefault)[k] = JsonLoads(redis[FullKey(NsDefault, k)])

\* C5 (as claimed): set_state returns True whenever the mirror was written, also when
\* the store write or the publish failed.
C5_SetReturnsTrue ==
    \A t \in CacheTasks :
        (pc[t] = "returned" /\ call[t].op = "set") => ret[t].bool = TRUE

\* C6: a get_state that follows the task's own returned set_state of the same entry,
\* with no other write to that mirror entry (another set, or an applied event) since
\* the set wrote it, returns the value set and does not access the store.
C6_Premise(t) ==
    /\ pc[t] = "returned"
    /\ call[t].op = "get"
    /\ own_write[t].clean
    /\ own_write[t].ns = call[t].ns
    /\ own_write[t].key = call[t].key

C7_Pending(p, k, v) ==
    \E i \in 1..Len(pubsub[p].buffer) :
        /\ JsonLoads(pubsub[p].buffer[i].data).key = k
        /\ JsonLoads(pubsub[p].buffer[i].data).value = v

C7_Applied(p, k, v) ==
    /\ Has(Mirror(p, NsDefault), k)
    /\ Mirror(p, NsDefault)[k] = v
    /\ \A i \in 1..Len(SubscriberList(p, NsDefault)) :
           \E j \in 1..Len(cb_log[p][SubscriberList(p, NsDefault)[i]]) :
               cb_log[p][SubscriberList(p, NsDefault)[i]][j] = <<k, v>>

C7_EventuallyApplied ==
    \A k \in Keys, v \in Values : C7_Pending("P2", k, v) ~> C7_Applied("P2", k, v)

\* P2 has applied an event that P1 published
C7_Witness ==
    /\ call["t1"].op = "set"
    /\ pc["t1"] = "returned"
    /\ ret["t1"].bool = TRUE
    /\ call["t2"].op = "none"
    /\ applied["P2"] > 0
    /\ C7_Applied("P2", call["t1"].key, call["t1"].value)


\* the messages of kind "caption" with content `text` in a log
CaptionMessages(log, text) ==
    {i \in 1..Len(log) : log[i].type = "caption" /\ log[i].content = text}

\* C2 (as claimed): in one process, replication disabled or enabled, a single
\* update_caption(room, user, text, is_final=true) with text left after trimming adds
\* exactly one message of kind "caption" with that content to the room's log once all
\* propagation events are consumed, and the caption snapshot shows is_final.
C2_ExactlyOneCaptionMessage ==
    \A t \in ChatTasks :
        ( /\ ops = 1
          /\ pc[t] = "returned"
          /\ caption_of[t].is_final
          /\ Strip(caption_of[t].text) # <<>>
          /\ pubsub[ProcOf(t)].buffer = <<>> )
        => /\ Cardinality(CaptionMessages(ListOf(room_messages[ProcOf(t)], RoomOf(t)),
                                          caption_of[t].text)) = 1
           /\ Has(Lookup(captions[ProcOf(t)], RoomOf(t)), UserOf(t))
           /\ Lookup(captions[ProcOf(t)], RoomOf(t))[UserOf(t)].is_final

\* ids are f"msg_{seconds}_{counter}": ordered by the seconds, then by the counter
IdLess(a, b) == a[1] < b[1] \/ (a[1] = b[1] /\ a[2] < b[2])

\* C3 (as claimed): in every reachable state of one process the ids in each room log are
\* strictly increasing in log order, with replication disabled and with replication
\* enabled where the process's own listener consumes the events of its own writes.
C3_IdsStrictlyIncreasing ==
    \A room \in DOMAIN room_messages["P1"] :
        LET log == room_messages["P1"][room]
        IN \A i, j \in 1..Len(log) : i < j => IdLess(log[i].id, log[j].id)

\* the frames of kind `message` carrying message m that the client of b received
MessageFrames(b, m) ==
    {i \in 1..Len(inbox[b]) : inbox[b][i].type = "message" /\ inbox[b][i].message = m}

\* connection b is open in its room: registered, its client present, its handler alive
OpenInRoom(b) ==
    /\ Contains(Registered(ProcOf(b), RoomOf(b)), b)
    /\ sock[b] = "open"
    /\ pc[b] # "terminated"

\* the text frame of c1 was dispatched on P1 and its event was applied by P2's listener
\* while c4 was open on P2 and past its greeting
C4_Dispatched ==
    /\ message_of["c1"].type = "text"
    /\ Has(room_messages["P2"], RoomOf("c1"))
    /\ Contains(room_messages["P2"][RoomOf("c1")], message_of["c1"])
    /\ OpenInRoom("c4")
    /\ pc["c4"] = "recv"
    /\ \A i \in 1..Len(inbox["c4"]) : inbox["c4"][i].type # "history"

\* C4 (as claimed): with two server processes and replication enabled, after a
\* connection of room R on P1 sends a text frame, a connection that stays open in R on
\* P2 eventually receives a `message` frame carrying that message.
C4_RemoteDelivery ==
    C4_Dispatched ~> (MessageFrames("c4", message_of["c1"]) # {} \/ ~OpenInRoom("c4"))

\* C8: a connection never receives a `message` or `caption` frame that the dispatch of
\* a text or caption frame it sent itself produced.
C8_NoEcho ==
    \A c \in Conns : \A i \in 1..Len(inbox[c]) :
        inbox[c][i].type \in {"message", "caption"} => inbox[c][i].from # c

\* a sender finished a broadcast that reached its peer
C8_Witness ==
    \E a \in PairConns, b \in PairConns :
        /\ a # b
        /\ pc[a] = "recv"
        /\ message_of[a].type = "text"
        /\ MessageFrames(b, message_of[a]) # {}
        /\ \E i \in 1..Len(inbox[a]) : inbox[a][i].type = "system"

\* C9 (as claimed): when A's text frame has been dispatched and its broadcast loop has
\* ended, every other connection that was registered (and open) in the room from the
\* start to the end of the broadcast has received exactly one `message` frame for it,
\* even if a third connection was removed from the registry or a send to another
\* connection failed while the loop was suspended.
C9_EveryPeerExactlyOnce ==
    \A a \in Conns :
        (pc[a] = "recv" /\ message_of[a].type = "text")
        => \A b \in stay[a] : Cardinality(MessageFrames(b, message_of[a])) = 1

\* C10 (as claimed): whenever a connection handler has terminated, by whichever exit
\* path, the connection is no longer in the registry.
C10_TerminatedUnregistered ==
    \A c \in Conns :
        pc[c] = "terminated" => ~Contains(Registered(ProcOf(c), RoomOf(c)), c)

\* the rooms a connection can name
Rooms == {RoomOf(c) : c \in Conns}

\* the number of times c occurs in a list
Occurrences(list, c) == Cardinality({i \in 1..Len(list) : list[i] = c})

\* the registry of p holds no empty list, and holds a connection only under its own
\* room, at most once
RegistryWellFormed(p) ==
    /\ \A room \in DOMAIN active_websockets[p] : active_websockets[p][room] # <<>>
    /\ \A c \in Conns : \A room \in DOMAIN active_websockets[p] :
          Occurrences(active_websockets[p][room], c)
              <= (IF room = RoomOf(c) /\ p = ProcOf(c) THEN 1 ELSE 0)

\* the disconnect handler of c runs while c is the only connection of its room
LastOneLeaves(c) ==
    /\ Registered(ProcOf(c), RoomOf(c)) = <<c>>
    /\ WsDisconnect(c)

\* C11: in every reachable state no room key of the registry maps to an empty list and
\* every connection is listed under one room key only (its own), at most once; and a
\* step in which the only connection of a room disconnects (receive_text raises
\* WebSocketDisconnect and the handler for it runs) leaves the room key absent.
C11_RegistryWellFormed ==
    /\ [](\A p \in Procs : RegistryWellFormed(p))
    /\ [][\A c \in Conns :
             LastOneLeaves(c) => ~Has(active_websockets'[ProcOf(c)], RoomOf(c))]_vars

\* the only connection of room s disconnected and its room key is gone, while room r
\* still has its connections
C11_Witness ==
    /\ pc["c5"] = "terminated"
    /\ \E i \in 1..Len(inbox["c5"]) : inbox["c5"][i].type = "system"
    /\ ~Has(active_websockets["P1"], "s")
    /\ Registered("P1", "r") = <<"c1", "c2">>

\* C12: a callback subscribed to a namespace more than once is invoked exactly once by
\* each propagation event of that namespace: no callback has been invoked more often
\* than the listener has taken events from the channel.
C12_InvokedOncePerEvent ==
    \A p \in Procs : \A c \in Callbacks : Len(cb_log[p][c]) <= applied[p]

\* unsubscribe() just returned True on a connected manager and left no namespace subscribed
LastUnsubscribed(p) ==
    /\ is_connected[p]
    /\ last_ret[p] = Returned("unsubscribe", TRUE)
    /\ subscribers[p] = EmptyDict

\* C13: after the last callback of a namespace is unsubscribed and no other namespace is
\* subscribed, the channel subscription is released and, while the manager stays
\* connected and nothing is subscribed again, no listener task remains running.
C13_ListenerTornDown ==
    \A p \in Procs :
        LastUnsubscribed(p)
            ~> (~LastUnsubscribed(p) \/ (pubsub[p].channels = {} /\ handlers[p] = 0))

\* the listener tasks of p that take the events of namespace ns: every task runs the same
\* loop over the one PubSub object of the manager, which carries all subscribed channels
Consumers(p, ns) ==
    IF is_connected[p] /\ ns \in pubsub[p].channels THEN handlers[p] ELSE 0

\* C14: whatever subscribe and unsubscribe calls were made, over one or several
\* namespaces, at most one listener task consumes the events of any given namespace.
C14_SingleConsumer ==
    \A p \in Procs : \A ns \in SubsNamespaces : Consumers(p, ns) <= 1

\* C15: connect() on a manager that is already connected leaves the observable state as
\* it was: the namespaces subscribed before the call are still subscribed on the
\* propagation channel after it.
C15_ConnectIdempotent ==
    [][\A p \in Procs :
          (is_connected[p] /\ SubsConnect(p))
              => /\ pubsub'[p].channels = pubsub[p].channels
                 /\ is_connected'[p]
                 /\ subscribers'[p] = subscribers[p]]_vars

\* C16: connect() returns False and leaves the manager not connected when replication
\* is disabled, and also when it is enabled but the backing store cannot be reached.
C16_ConnectRefused ==
    \A p \in Procs :
        (last_ret[p].op = "connect" /\ (~REDIS_ENABLED \/ ~reachable))
            => (~last_ret[p].value /\ ~is_connected[p])

\* the mirror of the process of t at the entry its current call names
MirrorEntry(t) == Lookup(local_state[ProcOf(t)], call[t].ns)

\* C17: with the store or the channel unreachable, set, get, delete, get_all, subscribe
\* and unsubscribe all end by returning, never by an exception reaching the caller; and
\* a set or delete that returned while the store was unreachable has taken effect on
\* the mirror.
C17_NeverRaises ==
    /\ \A t \in Tasks : pc[t] # "raised"
    /\ \A p \in Procs :
          last_ret[p] \in [op : {"none", "connect", "subscribe", "unsubscribe"}, value : BOOLEAN]
    /\ ~reachable =>
          \A t \in ApiTasks :
              pc[t] = "returned" =>
                  /\ call[t].op = "set" =>
                        (Has(MirrorEntry(t), call[t].key)
                             /\ MirrorEntry(t)[call[t].key] = call[t].value)
                  /\ call[t].op = "delete" => ~Has(MirrorEntry(t), call[t].key)

\* connected to an unreachable store: unsubscribe failed to release and returned False,
\* and a set returned False with its value in the mirror
C17_Witness ==
    /\ ~reachable
    /\ is_connected["P1"]
    /\ last_ret["P1"] = Returned("unsubscribe", FALSE)
    /\ Has(subscribers["P1"], NsDefault)
    /\ pc["t1"] = "returned"
    /\ call["t1"].op = "set"
    /\ ret["t1"] = SetResult(FALSE)
    /\ Has(MirrorEntry("t1"), call["t1"].key)

\* the entries the store holds for namespace ns, under their names without the prefix
StoreEntries(ns) ==
    [k \in {fk[2] : fk \in {x \in DOMAIN redis : x[1] = ns}} |-> JsonLoads(redis[FullKey(ns, k)])]

\* get_all_states of task t returns in this step after reading the store without error
GetAllReturns(t) ==
    /\ call[t].op = "get_all"
    /\ pc[t] \in {"all_keys", "all_mget"}
    /\ pc'[t] = "returned"
    /\ failures' = failures
    /\ reachable

\* C18: get_all(namespace) returns the union of the mirror entries and the store entries
\* of the namespace, and a key that both hold with different values comes out with the
\* mirror's value.  The mirror entries are those the call copied when it started.
C18_MirrorWins ==
    [][\A t \in ApiTasks :
          GetAllReturns(t) => ret'[t].value = Update(StoreEntries(call[t].ns), call[t].value)]_vars

\* the log of the room a history request of t names, and what the request passed
LogOf(t) == ListOf(room_messages[ProcOf(t)], call[t].ns)
HistoryReturned(t) == pc[t] = "returned" /\ call[t].op = "get_room_messages"

\* the prefix of log strictly before the first message whose id is before_id; the whole
\* log when before_id is absent or matches no message
PrefixBefore(log, before_id) ==
    LET found == {i \in 1..Len(log) : log[i].id = before_id} IN
    IF before_id = NoId \/ found = {} THEN log
    ELSE SubSeq(log, 1, (CHOOSE i \in found : \A j \in found : i <= j) - 1)

\* the last min(n, |s|) entries of s, in order
LastEntries(s, n) ==
    LET m == IF n < Len(s) THEN n ELSE Len(s) IN SubSeq(s, Len(s) - m + 1, Len(s))

\* C19: for every room log, every limit >= 1 and every before_id, get_room_messages
\* returns the last min(limit, |P|) entries, in log order, of the prefix P of the log
\* before the first message with id before_id (P is the log when before_id is absent
\* or matches nothing).
C19_LastOfPrefix ==
    \A t \in ApiTasks :
        (HistoryReturned(t) /\ call[t].value.limit >= 1)
            => ret[t].value = LastEntries(PrefixBefore(LogOf(t), call[t].key),
                                          call[t].value.limit)

\* a log of three messages, the request names the id of the third and asks for one: the
\* answer is the second message alone
C19_Witness ==
    /\ HistoryReturned("t1")
    /\ Len(LogOf("t1")) = 3
    /\ call["t1"].key = LogOf("t1")[3].id
    /\ \A i \in 1..2 : LogOf("t1")[i].id # call["t1"].key
    /\ call["t1"].value.limit = 1
    /\ ret["t1"].value = <<LogOf("t1")[2]>>

\* C20: get_room_messages never returns more than limit entries, for any limit >= 0; with
\* limit = 0 and a non-empty log the result is empty.
C20_AtMostLimit ==
    \A t \in ApiTasks :
        HistoryReturned(t) => Len(ret[t].value) <= call[t].value.limit

\* --------------------------------------------------- listeners of a room
\* the listeners registered for room r in process P1
MessageListenersOf(room) ==
    IF Has(message_listeners["P1"], room) THEN message_listeners["P1"][room] ELSE {}
CaptionListenersOf(room) ==
    IF Has(caption_listeners["P1"], room) THEN caption_listeners["P1"][room] ELSE {}

\* the position of the first v in s, 0 if there is none
Pos(s, v) ==
    IF \E i \in 1..Len(s) : s[i] = v
    THEN CHOOSE i \in 1..Len(s) : s[i] = v /\ \A j \in 1..(i - 1) : s[j] # v
    ELSE 0

\* the Message values listener l received
HeardMessages(l) == SelectSeq(heard["P1"][l], LAMBDA v : "id" \in DOMAIN v)

\* the messages of room r in the order of their send_message calls: every call appends
\* its message to the log before anything else can
SentMessages ==
    LET log == ListOf(room_messages["P1"], "r")
        RECURSIVE First(_)
        First(i) == IF i > Len(log) THEN <<>>
                    ELSE (IF \E j \in 1..(i - 1) : log[j] = log[i] THEN <<>> ELSE <<log[i]>>)
                         \o First(i + 1)
    IN First(1)

\* nothing is running, waiting or in flight in P1
Delivered ==
    /\ running = NoTask
    /\ \A t \in ChatTasks : pc[t] \in {"idle", "returned"}
    /\ pubsub["P1"].buffer = <<>>
    /\ dispatching["P1"] = <<>>

\* C21: when one task has made its send_message calls for room r one after the other and
\* everything sent has been delivered, every listener of the room has received exactly the
\* sequence of messages sent, each once and unchanged, whether they were passed on
\* directly (replication disabled) or through propagation (enabled, store reachable).
C21_SameSequence ==
    (/\ Delivered
     /\ REDIS_ENABLED => reachable
     /\ \A i \in 1..Len(SentMessages) : SentMessages[i].user_id = "t1")
        => \A l \in MessageListenersOf("r") : HeardMessages(l) = SentMessages

\* C22: with replication enabled and the store unreachable, a message whose send_message
\* call has returned was passed to every message listener of its room, and a caption
\* whose update_caption call has returned to every caption listener of its room.
C22_DeliveredDespiteOutage ==
    \A t \in ChatTasks :
        (REDIS_ENABLED /\ ~reachable /\ pc[t] = "returned")
            => /\ message_of[t] # NoMessage
                   => \A l \in MessageListenersOf("r") : Pos(heard["P1"][l], message_of[t]) > 0
               /\ caption_of[t] # NoCaption
                   => \A l \in CaptionListenersOf("r") :
                          Pos(heard["P1"][l], [room |-> "r", user_id |-> t,
                                               caption |-> caption_of[t]]) > 0

\* C23: when the send_message call of task t has completed and that of task u has not,
\* no listener of the room has received u's message without having received t's before.
C23_CompletionOrder ==
    \A t \in ChatTasks, u \in ChatTasks, l \in MessageListenersOf("r") :
        (/\ ~REDIS_ENABLED
         /\ pc[t] = "returned"
         /\ message_of[t] # NoMessage
         /\ pc[u] \in {"sm_notify", "sm_listening"}
         /\ Pos(heard["P1"][l], message_of[u]) > 0)
            => /\ Pos(heard["P1"][l], message_of[t]) > 0
               /\ Pos(heard["P1"][l], message_of[t]) < Pos(heard["P1"][l], message_of[u])

\* the caption update task t last made, as a caption listener receives it
CaptionHeard(t) == [room |-> "r", user_id |-> t, caption |-> caption_of[t]]

\* C24: callback cbB and listener lA raise whenever they are invoked.  Every message
\* sent is still passed to every other callback subscribed to the namespace and to every
\* other listener of the room, on the propagation path and on the direct path, every
\* caption to every caption listener, and the listener tasks and the sending tasks go on.
C24_OthersStillInvoked ==
    /\ (REDIS_ENABLED /\ reachable /\ Delivered)
          => /\ \A i \in 1..Len(SentMessages) :
                    /\ \A c \in Callbacks :
                           Contains(ListOf(subscribers["P1"], NsChat), c)
                               => Contains(cb_log["P1"][c], <<<<"r">>, SentMessages[i]>>)
                    /\ \A l \in MessageListenersOf("r") :
                           Pos(heard["P1"][l], SentMessages[i]) > 0
             /\ \A t \in ChatTasks, l \in CaptionListenersOf("r") :
                    caption_of[t] # NoCaption => Pos(heard["P1"][l], CaptionHeard(t)) > 0
    /\ \A t \in ChatTasks :
          (~REDIS_ENABLED /\ pc[t] = "returned")
              => /\ message_of[t] # NoMessage
                     => \A l \in MessageListenersOf("r") :
                            Pos(heard["P1"][l], message_of[t]) > 0
                 /\ caption_of[t] # NoCaption
                     => \A l \in CaptionListenersOf("r") :
                            Pos(heard["P1"][l], CaptionHeard(t)) > 0
    /\ (REDIS_ENABLED /\ reachable /\ boot["P1"] = "ready") => handlers["P1"] = 2

\* a message went through propagation to the callbacks <<_handle_message_update, cbB,
\* cbA>> and the listeners lA and lB: cbB and lA raised, cbA and lB were invoked
C24_Witness ==
    /\ REDIS_ENABLED /\ reachable /\ Delivered
    /\ Len(SentMessages) >= 1
    /\ ListOf(subscribers["P1"], NsChat) = <<"_handle_message_update", "cbB", "cbA">>
    /\ MessageListenersOf("r") = {"lA", "lB"}
    /\ {"cbB", "lA"} \subseteq Faulty
    /\ Contains(cb_log["P1"]["cbB"], <<<<"r">>, SentMessages[1]>>)
    /\ Contains(cb_log["P1"]["cbA"], <<<<"r">>, SentMessages[1]>>)
    /\ Pos(heard["P1"]["lA"], SentMessages[1]) > 0
    /\ Pos(heard["P1"]["lB"], SentMessages[1]) > 0

\* a payload that is no JSON, or lacks type or key, or is an update without value
Malformed(text) ==
    \/ ~Decodable(text)
    \/ "type" \notin DOMAIN JsonLoads(text)
    \/ "key" \notin DOMAIN JsonLoads(text)
    \/ /\ JsonLoads(text).type = "state_update"
       /\ "value" \notin DOMAIN JsonLoads(text)

\* the listener task of p takes the message at the head of its buffer
Takes(p) == applied'[p] = applied[p] + 1

\* C25: when a listener task takes a malformed payload, the mirror is unchanged, no
\* callback and no listener is invoked, and the task stays; when it takes a well-formed
\* update of a subscribed namespace, whatever it took before, the mirror holds the value
\* and every subscribed callback is invoked once more.
C25_MalformedDropped ==
    [][\A p \in Procs :
          Takes(p) =>
              LET message == Head(pubsub[p].buffer)
                  ns == message.channel[2]
              IN IF Malformed(message.data)
                 THEN /\ local_state' = local_state
                      /\ cb_log' = cb_log
                      /\ heard' = heard
                      /\ handlers' = handlers
                      /\ is_connected' = is_connected
                 ELSE (/\ Has(subscribers[p], ns)
                       /\ JsonLoads(message.data).type = "state_update")
                          => /\ Lookup(local_state'[p], ns)[JsonLoads(message.data).key]
                                    = JsonLoads(message.data).value
                             /\ \A c \in Callbacks :
                                    Contains(subscribers[p][ns], c)
                                        => Len(cb_log'[p][c]) = Len(cb_log[p][c]) + 1
                             /\ handlers' = handlers]_vars

\* the listener of P2 has taken one payload and dropped it, it still runs, and the
\* well-formed event that came after is at the head of its buffer
C25_Witness ==
    /\ applied["P2"] = 1
    /\ local_state["P2"] = EmptyDict
    /\ \A c \in Callbacks : cb_log["P2"][c] = <<>>
    /\ published = 2
    /\ ops = 0
    /\ HandlerReady("P2")
    /\ ~Malformed(Head(pubsub["P2"].buffer).data)
    /\ Applies("P2", Head(pubsub["P2"].buffer))

\* the frames connection c received from its own handler
OwnFrames(c) == SelectSeq(inbox[c], LAMBDA f : f.from = c)

\* the place of a frame in the greeting; every other frame comes after the greeting
Rank(type) ==
    IF type = "system" THEN 1
    ELSE IF type = "history" THEN 2
    ELSE IF type = "captions" THEN 3
    ELSE 4

UnknownId(t) ==
    /\ ops' = ops + 1
    /\ \/ /\ call'[t].op \in {"stop_recording", "get_recording_status"}
          /\ ~Has(active_recordings[ProcOf(t)], call'[t].key)
       \/ /\ call'[t].op \in {"end_call", "get_call_status"}
          /\ ~Has(active_calls[ProcOf(t)], call'[t].key)

\* C30: stop_recording, get_recording_status, end_call and get_call_status called with
\* an id the registry does not hold return false with a text that explains it, raise
\* nothing and leave both registries as they were.
C30_UnknownDeclined ==
    [][\A t \in ApiTasks :
          UnknownId(t) => /\ replies'[t].success = FALSE
                          /\ replies'[t].raised = FALSE
                          /\ replies'[t].message \in {"not found", "disabled"}
                          /\ active_recordings' = active_recordings
                          /\ active_calls' = active_calls]_vars

\* with recording enabled, a recording of room r and a call in the registries, a stop
\* for an id that was never handed out was declined as not found
C30_Witness ==
    /\ RECORDING_ENABLED
    /\ Has(active_recordings["P1"], <<"rec", "r", 1>>)
    /\ active_calls["P1"] # EmptyDict
    /\ call["t1"].op = "stop_recording"
    /\ call["t1"].key = <<"rec", "unknown", 0>>
    /\ replies["t1"] = Reply(FALSE, "not found", <<"rec", "unknown", 0>>)

\* the handler of c is back at receive_text on an open socket, c registered in its room
Serving(c) ==
    /\ pc'[c] = "recv"
    /\ sock'[c] = "open"
    /\ Contains(ListOf(active_websockets'[ProcOf(c)], RoomOf(c)), c)

\* C27: after an inbound frame that is no JSON text, or whose handling raises, the
\* connection is still open, still registered in its room, and its handler awaits
\* the next frame.
C27_StaysServing ==
    [][\A c \in Conns :
          /\ (WsReceiveInvalid(c) \/ WsReceiveBinary(c)) => Serving(c)
          /\ (sock[c] = "open" /\ \E o \in {"disconnect", "error"} : WsBroadcastSend(c, o))
                 => Serving(c)]_vars

\* the frames of type recording_status that connection b received
StatusFrames(b) == SelectSeq(inbox[b], LAMBDA f : f.type = "recording_status")

\* C28: a recording_status frame reaches only the connection whose command it answers:
\* every such frame a connection received was built by its own handler, from the result
\* of a start_recording or stop_recording command.
C28_StatusToRequesterOnly ==
    \A b \in Conns : \A i \in 1..Len(StatusFrames(b)) :
        /\ StatusFrames(b)[i].from = b
        /\ StatusFrames(b)[i].text \in {"started", "stopped", "already recording",
                                        "not found", "request failed"}

\* c1 was told that its recording started while c2, registered in the same room with
\* an open socket, and c5, in another room, received no status frame
C28_Witness ==
    /\ \E i \in 1..Len(StatusFrames("c1")) :
           StatusFrames("c1")[i].success /\ StatusFrames("c1")[i].text = "started"
    /\ Contains(Registered("P1", "r"), "c2")
    /\ sock["c2"] = "open" /\ pc["c2"] = "recv"
    /\ sock["c5"] = "open" /\ pc["c5"] = "recv"
    /\ StatusFrames("c2") = <<>>
    /\ StatusFrames("c5") = <<>>

\* the message frames of the request of task t that connection b received
RestFrames(t, b) ==
    {i \in 1..Len(inbox[b]) : inbox[b][i] = MessageFrame(t, message_of[t])}

\* C29 (as claimed): when the REST operation for room R has ended, every connection that
\* was registered in R, with a live client, throughout the broadcast has received one
\* `message` frame carrying the appended message, and no connection of another room has
\* received one.
C29_EveryConnectionOfRoom ==
    \A t \in ApiTasks :
        (pc[t] = "returned" /\ message_of[t].type = "text")
        => /\ Contains(ListOf(room_messages[ProcOf(t)], RoomOf(t)), message_of[t])
           /\ \A b \in stay[t] : Cardinality(RestFrames(t, b)) = 1
           /\ \A b \in Conns : RoomOf(b) # RoomOf(t) => RestFrames(t, b) = {}

\* the entries the recording registry of p holds for a room
EntriesOf(p, room) ==
    {id \in DOMAIN active_recordings[p] : active_recordings[p][id].room_name = room}

\* C40: the recording registry holds at most one entry per room, and start_recording
\* for a room that has an entry, active or stopped, is declined with the id of that
\* entry and adds nothing.
C40_OneEntryPerRoom ==
    [][/\ \A p \in Procs, room \in {"r", "s"} : Cardinality(EntriesOf(p, room))' <= 1
       /\ \A t \in ApiTasks :
             (/\ ops' = ops + 1
              /\ call'[t].op = "start_recording"
              /\ RECORDING_ENABLED
              /\ EntriesOf(ProcOf(t), call'[t].key[1]) # {})
             => /\ replies'[t].success = FALSE
                /\ replies'[t].id \in EntriesOf(ProcOf(t), call'[t].key[1])
                /\ active_recordings' = active_recordings]_vars

\* the recording of room r was stopped, and a later start_recording for room r was
\* declined with its id
C40_Witness ==
    /\ EntriesOf("P1", "r") = {<<"rec", "r", 1>>}
    /\ active_recordings["P1"][<<"rec", "r", 1>>].status = "stopped"
    /\ call["t1"].op = "start_recording"
    /\ call["t1"].key = <<"r">>
    /\ replies["t1"] = Reply(FALSE, "already recording", <<"rec", "r", 1>>)

\* task t calls get_state in this step
GetCalled(t) == \E k \in Keys : ApiGet(t, k)

\* the fetch of get_state of task t returns in this step
GetFetched(t) == pc[t] = "get_store" /\ pc'[t] = "returned"

\* the mirror entry a get_state call of t names, before and after the step
GetEntry(t) == Lookup(local_state[ProcOf(t)], call'[t].ns)

\* C32: get_state on a key of the mirror returns the mirror's value without going to
\* the store; on a miss with the store connected it fetches from the store; a fetch
\* that finds a value writes it to the mirror and returns it, a fetch that finds none
\* (or fails) returns None and leaves the mirror as it was.
C32_GetThroughMirror ==
    [][\A t \in ApiTasks :
          /\ (GetCalled(t) /\ Has(GetEntry(t), call'[t].key))
                 => /\ pc'[t] = "returned"
                    /\ ret'[t] = GetResult(GetEntry(t)[call'[t].key], FALSE)
                    /\ local_state' = local_state
          /\ (GetCalled(t) /\ ~Has(GetEntry(t), call'[t].key))
                 => IF is_connected[ProcOf(t)]
                    THEN pc'[t] = "get_store" /\ local_state' = local_state
                    ELSE pc'[t] = "returned" /\ ret'[t] = GetResult(None, FALSE)
          /\ (GetFetched(t) /\ failures' = failures /\ Has(redis, FullKey(call[t].ns, call[t].key)))
                 => LET value == JsonLoads(redis[FullKey(call[t].ns, call[t].key)])
                    IN /\ ret'[t] = GetResult(value, TRUE)
                       /\ Has(Lookup(local_state'[ProcOf(t)], call[t].ns), call[t].key)
                       /\ local_state'[ProcOf(t)][call[t].ns][call[t].key] = value
          /\ (GetFetched(t) /\ ~(failures' = failures
                                 /\ Has(redis, FullKey(call[t].ns, call[t].key))))
                 => ret'[t] = GetResult(None, TRUE) /\ local_state' = local_state]_vars

\* a get of task t2 missed the mirror of P2, fetched what P1 had stored, and the mirror
\* of P2 now holds it
C32_Witness ==
    /\ pc["t2"] = "returned"
    /\ call["t2"].op = "get"
    /\ ret["t2"].store_access
    /\ ret["t2"].value \in Values
    /\ Lookup(Lookup(local_state["P2"], NsDefault), <<"k">>) = ret["t2"].value
    /\ handlers["P2"] = 0

\* n invocations with the arguments (key, value)
Repeated(n, key, value) == [i \in 1..n |-> <<key, value>>]

\* the callbacks of a client among the first k subscribers of a list got one more
\* invocation each with (key, value), the others none
InvokedUpTo(p, list, k, key, value) ==
    \A c \in Callbacks :
        cb_log'[p][c] = cb_log[p][c] \o Repeated(Occurrences(SubSeq(list, 1, k), c), key, value)

\* C31: when the listener takes an event of a subscribed namespace it writes the mirror
\* from the payload (the value on update, the key removed on delete) without touching
\* the store, and invokes the callbacks of the namespace in registration order with the
\* value, or None on delete: while it is suspended inside one callback, the mirror is
\* written and exactly the callbacks registered up to that one have been invoked.
C31_MirrorThenCallbacks ==
    [][\A p \in Procs :
          (Takes(p) /\ Applies(p, Head(pubsub[p].buffer))) =>
              LET message == Head(pubsub[p].buffer)
                  data == JsonLoads(message.data)
                  ns == message.channel[2]
                  list == subscribers[p][ns]
                  value == IF data.type = "state_update" THEN data.value ELSE None
                  entry == Lookup(local_state'[p], ns)
              IN /\ IF data.type = "state_update"
                    THEN Has(entry, data.key) /\ entry[data.key] = data.value
                    ELSE ~Has(entry, data.key)
                 /\ redis' = redis
                 /\ IF dispatching'[p] = dispatching[p]
                    THEN InvokedUpTo(p, list, Len(list), data.key, value)
                    ELSE \E k \in 1..Len(list) :
                            /\ list[k] = "_handle_message_update"
                            /\ \A j \in 1..(k - 1) : list[j] # list[k]
                            /\ InvokedUpTo(p, list, k, data.key, value)
                            /\ Rest(dispatching'[p][Len(dispatching'[p])])
                                   = SubSeq(list, k + 1, Len(list))]_vars

\* the listener has taken the event of an older message after the store and the mirror
\* held a newer one: the mirror holds the older message again, both callbacks of the
\* client were invoked with it, and the event of the newer one waits
C31_Witness ==
    /\ ListOf(subscribers["P1"], NsChat) = <<"_handle_message_update", "cbB", "cbA">>
    /\ Len(cb_log["P1"]["cbA"]) = 1
    /\ Len(cb_log["P1"]["cbB"]) = 1
    /\ Len(pubsub["P1"].buffer) = 1
    /\ Has(redis, FullKey(NsChat, <<"r">>))
    /\ Has(Lookup(local_state["P1"], NsChat), <<"r">>)
    /\ Lookup(local_state["P1"], NsChat)[<<"r">>] = cb_log["P1"]["cbA"][1][2]
    /\ JsonLoads(redis[FullKey(NsChat, <<"r">>)]) # cb_log["P1"]["cbA"][1][2]
    /\ dispatching["P1"] = <<>>

\* C33: when a callback is unsubscribed while the listener task is suspended inside
\* another callback, every callback that stays registered throughout the dispatch is
\* invoked exactly once for the event.  In SpecIterate a callback is registered once,
\* before the first event is taken, and never again, so a callback that is in the list
\* was registered throughout every dispatch so far: whenever no dispatch is under way
\* it has been invoked once for each event taken.
C33_NoneSkipped ==
    dispatching["P1"] = <<>> /\ running = NoTask =>
        \A c \in Callbacks :
            (\E i \in 1..Len(SubscriberList("P1", NsDefault)) :
                SubscriberList("P1", NsDefault)[i] = c)
            => Len(cb_log["P1"][c]) = applied["P1"]

\* the captions entry of (room, user) in a process's mirror or in the store is `caption`
CaptionReplicated(mirror, store, room, user, caption) ==
    \/ /\ Has(mirror, NsCaptions)
       /\ Has(mirror[NsCaptions], <<room, user>>)
       /\ mirror[NsCaptions][<<room, user>>] = caption
    \/ /\ Has(store, FullKey(NsCaptions, <<room, user>>))
       /\ store[FullKey(NsCaptions, <<room, user>>)] = JsonDumps(caption)

\* C34: for a final caption with text left after trimming, update_caption has written
\* the local caption snapshot and, with replication enabled, the replicated captions
\* entry of (room, user) by the time the caption message is appended to the log.
C34_CaptionStateFirst ==
    [][\A t \in ChatTasks, x \in Texts :
          ChatCaption(t, x, TRUE) /\ Strip(x) # <<>>
          => /\ Contains(ListOf(room_messages'[ProcOf(t)], RoomOf(t)), message_of'[t])
             /\ Lookup(captions'[ProcOf(t)], RoomOf(t))[UserOf(t)] = caption_of'[t]
             /\ REDIS_ENABLED =>
                    CaptionReplicated(local_state'[ProcOf(t)], redis', RoomOf(t), UserOf(t),
                                      caption_of'[t])]_vars

\* C35: after clear_room_messages(room) has returned in a process, the process's log of
\* the room holds only messages whose send_message call began after the clear, also
\* when events of earlier messages are consumed after it.  In SpecEvents task t1 makes
\* all the calls of the process one after the other: when its last call is the clear
\* and has returned, no send_message began after the clear and the log is empty.
C35_OnlyLaterMessages ==
    pc["t1"] = "returned" /\ call["t1"].op \in {"delete", "clear"}
    => ListOf(room_messages["P1"], "r") = <<>>

\* the listener of p takes a state_delete event of the messages namespace
TakesDelete(p) ==
    /\ HandlerStep(p)
    /\ Head(pubsub[p].buffer).channel = Channel(NsChat)
    /\ JsonLoads(Head(pubsub[p].buffer).data).type = "state_delete"

\* C39: with replication enabled, clear_room_messages(room) in process P1 leaves the log
\* of the room in the other process P2 unchanged: neither a step of the clear in P1 nor
\* P2's handling of the delete event changes P2's logs.
C39_OtherLogsKept ==
    [][ChatClear("t1") \/ DeleteStateStore("t1") \/ DeleteStatePublish("t1")
       \/ TakesDelete("P2")
       => room_messages'["P2"] = room_messages["P2"]]_vars

\* P1 sent a message and cleared the room, P2 has consumed both events: its log still
\* holds the message while P1's is empty
C39_Witness ==
    /\ pc["t1"] = "returned"
    /\ call["t1"].op = "delete"
    /\ published = 2
    /\ applied["P2"] = 2
    /\ pubsub["P2"].buffer = <<>>
    /\ ListOf(room_messages["P1"], "r") = <<>>
    /\ Len(ListOf(room_messages["P2"], "r")) = 1

\* C37: a message of a room reaches a connection at most once: a message that is in the
\* `history` frame sent to a newly opened connection is not also delivered to it as a
\* live `message` frame, however the open sequence of the connection interleaves with
\* a broadcast from another connection of the room.
C37_AtMostOnce ==
    \A b \in Conns : \A i \in 1..Len(inbox[b]) :
        inbox[b][i].type = "history"
        => \A j \in 1..Len(inbox[b][i].messages) :
               MessageFrames(b, inbox[b][i].messages[j]) = {}

\* C38: get_room_messages is read-only: for every limit and before_id, matching a
\* message or not, the stored logs are the same after the call as before it.
C38_ReadOnly ==
    [][\A limit \in 0..MaxLimit, before_id \in HistoryIds \cup {NoId} :
          GetMessagesApi("t1", "r", limit, before_id) => room_messages' = room_messages]_vars

\* a call whose before_id matched a message and whose limit cut the prefix further
\* returned fewer messages than the log holds
C38_Witness ==
    /\ pc["t1"] = "returned"
    /\ call["t1"].op = "get_room_messages"
    /\ Has(room_messages["P1"], "r")
    /\ \E i \in 2..Len(room_messages["P1"]["r"]) :
           /\ room_messages["P1"]["r"][i].id = call["t1"].key
           /\ call["t1"].value.limit \in 1..(i - 2)
    /\ Len(ret["t1"].value) = call["t1"].value.limit
    /\ Len(ret["t1"].value) < Len(room_messages["P1"]["r"])

\* C36: after disconnect() has marked the manager as not connected, every running
\* listener task leaves its poll loop and ends within finitely many steps.
C36_ListenersEnd ==
    (boot["P1"] = "down" /\ ~is_connected["P1"]) ~> (handlers["P1"] = 0)

\* the two listener tasks that startup created have ended after the shutdown
C36_Witness ==
    /\ boot["P1"] = "down"
    /\ ~is_connected["P1"]
    /\ pubsub["P1"].channels = {NsChat, NsCaptions}
    /\ applied["P1"] > 0
    /\ handlers["P1"] = 0

====
